---- MODULE Spec2Model ----
(***************************************************************************)
(* The evolutionary search engine of evolvattention                        *)
(* (src/src/evolvattention/evolve/evolution.py): Individual, Population    *)
(* and EvolutionaryAlgorithm, with the VecBookIndex it consumes as an      *)
(* environment.                                                            *)
(*                                                                         *)
(* Texts are sequences of one-character strings.  A fitness is an integer  *)
(* on the grid 0..FitMax, standing for the float fitness/FitMax in         *)
(* [0.0, 1.0]; an average is the exact fraction sum/len in lowest terms.   *)
(* random.* draws are nondeterministic choices: crossover_rate (0.8) and   *)
(* mutation_rate (0.1) lie strictly between 0 and 1, so each branch they   *)
(* guard can be taken and can be skipped.                                  *)
(***************************************************************************)
EXTENDS Integers, Sequences, FiniteSets, TLC

VARIABLES
    population_size,    \* EvolutionaryAlgorithm.population_size
    elite_size,         \* EvolutionaryAlgorithm.elite_size
    tournament_size,    \* EvolutionaryAlgorithm.tournament_size
    output_length,      \* EvolutionaryAlgorithm.output_length
    population,         \* EvolutionaryAlgorithm.population: None or a Population
    generation,         \* EvolutionaryAlgorithm.generation
    fitness_history,    \* EvolutionaryAlgorithm.fitness_history
    target_barycenter,  \* VecBookIndex.target_barycenter, the Oracle's stored vector
    running,            \* "idle", or "hung" when a call never returns
    op,                 \* the engine operation called last
    args,               \* its arguments
    result,             \* what it returned
    calls,              \* what it asked of the Oracle, and how many candidates it sampled
    steps,              \* successful generation steps since the last successful initialization
    before,             \* the generation and the length of the fitness history when the
                        \* last call began (kept where a long run of the engine is followed);
                        \* the output_length of the last successful initialization (kept
                        \* where evolve_generation is followed pass by pass)
    made,               \* the last direct call of Population(...), _select_parents, _crossover
                        \* or _mutate: its arguments and the value it gave; the local
                        \* variables of evolve_generation where it is followed pass by pass
    state,              \* server.state: ServerState.barycenter_vector and .evolution_session
    request,            \* the request the server received last
    pc,                 \* where the handler of that request stands; "idle" once it has answered
    response            \* the answer to the last request that was answered

vars == <<population_size, elite_size, tournament_size, output_length, population,
          generation, fitness_history, target_barycenter, running, op, args,
          result, calls, steps, before, made, state, request, pc, response>>

engine_vars == <<population_size, elite_size, tournament_size, output_length, population,
                 generation, fitness_history, target_barycenter, running, op, args,
                 result, calls, steps, before>>

server_vars == <<state, request, pc, response>>

(***************************************************************************)
(* Bounds of the model.                                                    *)
(***************************************************************************)
MaxPop == 2         \* population_size ranges over 0..MaxPop
MaxElite == 2       \* elite_size ranges over 0..MaxElite
MaxTour == 2        \* tournament_size ranges over 1..MaxTour
MaxOutLen == 1      \* output_length ranges over 0..MaxOutLen
MaxTextLen == 1     \* offspring longer than this are not followed
AlphabetSize == 2   \* the first AlphabetSize characters of POPULATION_ALPHABET are used
FitMax == 1         \* fitness grid: k stands for k/FitMax
MaxGen == 2         \* generation steps followed after an initialization
MaxRunGen == 4      \* and where a long run of the engine is followed
MaxLoopGen == 1      \* evolve_generation is followed pass by pass for up to MaxLoopGen generations
MaxServerPop == 0   \* population_size of a request to the server ranges over 0..MaxServerPop
MaxInitPop == 1     \* and over 0..MaxInitPop where only the initialize endpoint is followed
MaxStepGens == 2    \* step_generations of a request ranges over 0..MaxStepGens
MaxOperandLen == 2  \* texts handed to _crossover and _mutate directly have 0..MaxOperandLen characters
OperandAlphabetSize == 3    \* and use the first OperandAlphabetSize characters of POPULATION_ALPHABET
MaxSelectionLen == 3    \* populations handed to _select_parents directly have 0..MaxSelectionLen individuals
MaxSelectionTour == 3   \* and tournament_size ranges over 1..MaxSelectionTour

\* Python's None
None == [none |-> TRUE]

\* a numpy array: its elements and its .size
ndarray(data) == [data |-> data, size |-> Len(data)]

POPULATION_ALPHABET ==
    <<" ", "a", "b", "c", "d", "e", "f", "g", "h", "i", "j", "k", "l", "m",
      "n", "o", "p", "q", "r", "s", "t", "u", "v", "w", "x", "y", "z">>

Alphabet == {POPULATION_ALPHABET[i] : i \in 1..AlphabetSize}

DefaultOutputLength == 100

\* the defaults of EvolutionaryAlgorithm.__init__
DefaultPopulationSize == 50

DefaultEliteSize == 5

DefaultTournamentSize == 3

AttemptFactor == 10

Max(a, b) == IF a >= b THEN a ELSE b

Min(a, b) == IF a <= b THEN a ELSE b

RECURSIVE Gcd(_, _)
Gcd(a, b) == IF b = 0 THEN a ELSE Gcd(b, a % b)

\* the float num/den, kept exact
Frac(num, den) ==
    IF num = 0 THEN [num |-> 0, den |-> 1]
    ELSE [num |-> num \div Gcd(num, den), den |-> den \div Gcd(num, den)]

RECURSIVE SumSeq(_)
SumSeq(s) == IF s = <<>> THEN 0 ELSE Head(s) + SumSeq(Tail(s))

RECURSIVE MaxSeq(_)
MaxSeq(s) == IF Len(s) = 1 THEN Head(s) ELSE Max(Head(s), MaxSeq(Tail(s)))

(***************************************************************************)
(* Individual and Population.                                              *)
(***************************************************************************)
\* Individual(text=..., fitness=...); embedding stays None and attention_scores
\* stays [] everywhere in the engine, so they are left out.
Individual(text, fitness) == [text |-> text, fitness |-> fitness]

Fitnesses(individuals) == [i \in 1..Len(individuals) |-> individuals[i].fitness]

\* Population._update_statistics: the two statistics of a list of individuals
update_statistics(p) ==
    LET fitnesses == Fitnesses(p.individuals)
    IN  [p EXCEPT !.best_fitness = IF fitnesses /= <<>> THEN MaxSeq(fitnesses) ELSE 0,
                  !.average_fitness = IF fitnesses /= <<>>
                                      THEN Frac(SumSeq(fitnesses), Len(fitnesses))
                                      ELSE Frac(0, 1)]

ValueError == [raised |-> "ValueError",
               message |-> "target_barycenter cannot be an empty array"]

\* Population as it would be if the vector were validated only together with the
\* statistics, for a list of individuals that is not empty
PopulationValidatedWithMembers(individuals, tb, gen) ==
    LET p == [individuals |-> individuals, target_barycenter |-> tb, generation |-> gen,
              best_fitness |-> 0, average_fitness |-> Frac(0, 1)]
    IN  IF individuals = <<>> THEN p
        ELSE IF tb /= None /\ tb.size = 0 THEN ValueError
        ELSE update_statistics(p)

\* Population(individuals, target_barycenter, generation) with __post_init__:
\* a Population, or the ValueError it raises
Population(individuals, tb, gen) ==
    LET p == [individuals |-> individuals, target_barycenter |-> tb, generation |-> gen,
              best_fitness |-> 0, average_fitness |-> Frac(0, 1)]
    IN  IF tb /= None /\ tb.size = 0 THEN ValueError
        ELSE IF individuals /= <<>> THEN update_statistics(p)
        ELSE p

\* the place of x as it would be in a sort that is not stable: before its equals
RECURSIVE InsertDescUnstable(_, _)
InsertDescUnstable(sorted, x) ==
    IF sorted = <<>> THEN <<x>>
    ELSE IF Head(sorted).fitness > x.fitness
         THEN <<Head(sorted)>> \o InsertDescUnstable(Tail(sorted), x)
    ELSE <<x>> \o sorted

\* where list.sort(key=fitness, reverse=True) puts x among the already sorted:
\* after every element that is not smaller (the sort is stable)
RECURSIVE InsertDesc(_, _)
InsertDesc(sorted, x) ==
    IF sorted = <<>> THEN <<x>>
    ELSE IF Head(sorted).fitness >= x.fitness THEN <<Head(sorted)>> \o InsertDesc(Tail(sorted), x)
    ELSE <<x>> \o sorted

RECURSIVE SortedDesc(_, _)
SortedDesc(done, rest) ==
    IF rest = <<>> THEN done ELSE SortedDesc(InsertDesc(done, Head(rest)), Tail(rest))

\* Population.sort_by_fitness
sort_by_fitness(p) == [p EXCEPT !.individuals = SortedDesc(<<>>, p.individuals)]

\* Population.get_best_individual: max() keeps the first of the largest
get_best_individual(p) ==
    IF p.individuals = <<>> THEN None
    ELSE LET best == MaxSeq(Fitnesses(p.individuals))
             first == CHOOSE i \in 1..Len(p.individuals) :
                         /\ p.individuals[i].fitness = best
                         /\ \A j \in 1..(i - 1) : p.individuals[j].fitness /= best
         IN  p.individuals[first]

(***************************************************************************)
(* Texts.                                                                  *)
(***************************************************************************)
\* the texts of length n over the alphabet: what random.choices(POPULATION_ALPHABET, k=n)
\* can give; of the texts longer than MaxOutLen only those that repeat one
\* character are followed
Strings(n) ==
    IF n <= MaxOutLen THEN [1..n -> Alphabet]
    ELSE {[i \in 1..n |-> c] : c \in Alphabet}

\* str.ljust(n): pad with spaces on the right
ljust(s, n) == IF Len(s) >= n THEN s ELSE s \o [i \in 1..(n - Len(s)) |-> " "]

RECURSIVE lstrip(_)
lstrip(s) == IF s /= <<>> /\ Head(s) = " " THEN lstrip(Tail(s)) ELSE s

RECURSIVE rstrip(_)
rstrip(s) == IF s /= <<>> /\ s[Len(s)] = " " THEN rstrip(SubSeq(s, 1, Len(s) - 1)) ELSE s

\* str.strip(): the only whitespace of the alphabet is the space
strip(s) == rstrip(lstrip(s))

\* EvolutionaryAlgorithm._generate_initial_variation: the texts it can return
\* (getattr(self, 'output_length', 100): an engine that was never initialized
\* behaves as one whose output_length is DefaultOutputLength)
generate_initial_variation(length) == Strings(length)

(***************************************************************************)
(* The Oracle (VecBookIndex), an environment of the engine.                *)
(***************************************************************************)
\* what compare_against_barycenter([text]) can do: give a cosine similarity (on the
\* fitness grid, one step beyond it on either side), give an empty list, or raise
Similarities == (0 - 1)..(FitMax + 1)

CompareOutcomes ==
    {[kind |-> "similarity", cosine_similarity |-> c] : c \in Similarities}
        \cup {[kind |-> "empty"], [kind |-> "raise"]}

\* the non-success result a failing Oracle call returns
OracleError == [status |-> "error", message |-> "VecBookIndex error"]

\* the vector the Oracle computes from target strings
Barycenter(target_strings) == ndarray(<<Len(target_strings)>>)

\* the result of a successful Oracle call
OracleSuccess == [status |-> "success", message |-> "Target strings set successfully"]

\* the exception a raising Oracle call raises
OracleFailure == [raised |-> "RuntimeError", message |-> "VecBookIndex failure"]

\* what set_target_strings can do: return success having stored a vector (the
\* barycenter; or, for an Oracle that is inconsistent, nothing or an empty array),
\* return a non-success result, or raise
SetTargetOutcomes(target_strings) ==
    {[returned |-> OracleSuccess, stored |-> v] :
        v \in {Barycenter(target_strings), None, ndarray(<<>>)}}
        \cup {[returned |-> OracleError], [returned |-> OracleFailure]}

\* what get_target_info can do
GetTargetInfoOutcomes == {OracleSuccess, OracleError, OracleFailure}

\* _evaluate_fitness as it would be without the clamp
evaluate_fitness_unclamped(outcome) ==
    IF outcome.kind = "similarity" THEN outcome.cosine_similarity ELSE 0

\* _evaluate_fitness as it would be if a raising comparison gave the best fitness
evaluate_fitness_failure_as_best(outcome) ==
    IF outcome.kind = "similarity" THEN Max(0, Min(FitMax, outcome.cosine_similarity))
    ELSE IF outcome.kind = "raise" THEN FitMax
    ELSE 0

\* EvolutionaryAlgorithm._evaluate_fitness on one outcome of the Oracle's comparison
evaluate_fitness(outcome) ==
    IF outcome.kind = "similarity"
    THEN Max(0, Min(FitMax, outcome.cosine_similarity))
    ELSE 0

\* the fitness values scoring one candidate can give
FitnessOutcomes == {evaluate_fitness(o) : o \in CompareOutcomes}

\* the record of one operation: what set_target_strings and get_target_info did
\* ("-" when not called), how many candidates were scored through
\* compare_against_barycenter, and how many initialize_population sampled
NoCalls == [set_target_strings |-> "-", get_target_info |-> "-",
            compare_against_barycenter |-> 0, sampled |-> 0]

(***************************************************************************)
(* Selection, crossover, mutation.  Each operator gives the set of values  *)
(* the method can return over all outcomes of its random draws.            *)
(***************************************************************************)
\* the exception random.sample raises when asked for more than there is
SampleError == [raised |-> "ValueError",
                message |-> "Sample larger than population or is negative"]

\* the exception random.choice raises on an empty list
ChoiceError == [raised |-> "IndexError",
                message |-> "Cannot choose from an empty sequence"]

\* random.sample(list, k) as the sets of k positions it can draw
Samples(n, k) == {S \in SUBSET (1..n) : Cardinality(S) = k}

\* the winner of a tournament as it would be if any sampled member could win
WinnersAnySampled(members, S) == {members[i] : i \in S}

\* max(tournament, key=fitness) over all orders of the sample: any member of the
\* largest fitness
Winners(members, S) ==
    {members[i] : i \in {i \in S : \A j \in S : members[j].fitness <= members[i].fitness}}

\* the candidates of the second tournament as they would be if parent 1 stayed in
WithoutNobody(members, x) == members

\* the list without the positions whose individual equals x (dataclass equality)
RECURSIVE Without(_, _)
Without(members, x) ==
    IF members = <<>> THEN <<>>
    ELSE IF Head(members) /= x THEN <<Head(members)>> \o Without(Tail(members), x)
    ELSE Without(Tail(members), x)

\* the first tournament: the sampled positions and the winner
FirstChoices(members, k) ==
    UNION {{[tournament1 |-> S, parent1 |-> p1] : p1 \in Winners(members, S)} :
            S \in Samples(Len(members), k)}

\* tournament2: k sampled positions of the remaining candidates, or all of them
\* when fewer than k remain
SecondTournaments(remaining, k) ==
    IF Len(remaining) >= k THEN Samples(Len(remaining), k) ELSE {1..Len(remaining)}

\* the second parent, given the first: synthesized (the draw below 0.25), or the
\* winner among the sampled positions of the remaining candidates
SecondChoices(members, k, length, parent1) ==
    LET remaining == Without(members, parent1)
    IN  {[synthesized |-> TRUE, parent2 |-> Individual(t, 0)] :
            t \in generate_initial_variation(length)}
            \cup UNION {{[synthesized |-> FALSE, remaining |-> remaining,
                          tournament2 |-> S, parent2 |-> p2] :
                            p2 \in IF S /= {} THEN Winners(remaining, S) ELSE {parent1}} :
                        S \in SecondTournaments(remaining, k)}

SecondParents(members, k, length, parent1) ==
    {c.parent2 : c \in SecondChoices(members, k, length, parent1)}

\* EvolutionaryAlgorithm._select_parents: the pairs <<parent1, parent2>> it can
\* return, or the exception it raises
select_parents(members, k, length) ==
    IF k > Len(members) THEN {SampleError}
    ELSE UNION {{[parent1 |-> p1, parent2 |-> p2] :
                    p2 \in SecondParents(members, k, length, p1)} :
                p1 \in {c.parent1 : c \in FirstChoices(members, k)}}

\* the offspring text of _crossover before it is stripped, as it would be if the
\* parents were not padded: only the positions both parents have
MixedUnpadded(parent1_text, parent2_text, from1) ==
    [i \in 1..Min(Len(parent1_text), Len(parent2_text)) |->
        IF i \in from1 THEN parent1_text[i] ELSE parent2_text[i]]

\* the offspring text of _crossover before it is stripped: position i comes from
\* parent 1 when the coin flip of i chose it (i \in from1), else from parent 2
Mixed(parent1_text, parent2_text, from1) ==
    LET max_len == Max(Len(parent1_text), Len(parent2_text))
        text1 == ljust(parent1_text, max_len)
        text2 == ljust(parent2_text, max_len)
    IN  [i \in 1..max_len |-> IF i \in from1 THEN text1[i] ELSE text2[i]]

\* the clean-up of _crossover as it would be without the fall-back to the parents
CleanedNoFallback(offspring_text, parent1_text, parent2_text) == strip(offspring_text)

\* the clean-up of _crossover: the stripped offspring text, or when nothing is
\* left the stripped text of parent 1, or when nothing is left of it of parent 2
Cleaned(offspring_text, parent1_text, parent2_text) ==
    IF strip(offspring_text) /= <<>> THEN strip(offspring_text)
    ELSE IF strip(parent1_text) /= <<>> THEN strip(parent1_text)
    ELSE strip(parent2_text)

\* EvolutionaryAlgorithm._crossover on two parent texts: the offspring texts
crossover(parent1_text, parent2_text) ==
    {Cleaned(Mixed(parent1_text, parent2_text, from1), parent1_text, parent2_text) :
        from1 \in SUBSET (1..Max(Len(parent1_text), Len(parent2_text)))}

\* random character substitution, when its trial fires
Substitution(text) ==
    IF text /= <<>>
    THEN {[text EXCEPT ![pos] = new_char] : pos \in 1..Len(text), new_char \in Alphabet}
    ELSE {text}

\* random character insertion as it would be without the check for an empty text
InsertionUnguarded(text) ==
    {SubSeq(text, 1, pos) \o <<new_char>> \o SubSeq(text, pos + 1, Len(text)) :
        pos \in 0..Len(text), new_char \in Alphabet}

\* random character insertion, when its trial fires
Insertion(text) ==
    IF text /= <<>>
    THEN {SubSeq(text, 1, pos) \o <<new_char>> \o SubSeq(text, pos + 1, Len(text)) :
            pos \in 0..Len(text), new_char \in Alphabet}
    ELSE {text}

\* random character deletion as it would be without the floor of one character
DeletionUnguarded(text) ==
    IF text /= <<>>
    THEN {SubSeq(text, 1, pos - 1) \o SubSeq(text, pos + 1, Len(text)) : pos \in 1..Len(text)}
    ELSE {text}

\* random character deletion, when its trial fires
Deletion(text) ==
    IF Len(text) > 1
    THEN {SubSeq(text, 1, pos - 1) \o SubSeq(text, pos + 1, Len(text)) : pos \in 1..Len(text)}
    ELSE {text}

\* the three mutation trials, in the order _mutate runs them
Trials == {"substitution", "insertion", "deletion"}

\* _mutate when exactly the trials in fired fire: the text after the substitution
\* trial, after the insertion trial and after the deletion trial
MutationSteps(text, fired) ==
    UNION {UNION {{[substituted |-> t1, inserted |-> t2, value |-> t3] :
                     t3 \in IF "deletion" \in fired THEN Deletion(t2) ELSE {t2}} :
                  t2 \in IF "insertion" \in fired THEN Insertion(t1) ELSE {t1}} :
           t1 \in IF "substitution" \in fired THEN Substitution(text) ELSE {text}}

\* _mutate when exactly the trials in fired fire: the mutated texts
Mutated(text, fired) == {m.value : m \in MutationSteps(text, fired)}

\* EvolutionaryAlgorithm._mutate on a text: the mutated texts
mutate(text) == UNION {Mutated(text, fired) : fired \in SUBSET Trials}

(***************************************************************************)
(* The engine's operations.                                                *)
(***************************************************************************)
\* the target-string lists a caller passes
TargetInputs == {<<>>, <<"hello world", "goodbye friend">>}

Raised(x) == "raised" \in DOMAIN x

\* how the record of an operation names what an Oracle call did
Did(outcome) == IF Raised(outcome) THEN "raise" ELSE outcome.status

\* the handler of initialize_population as it would be if it let the exception go on
FailedToInitializeReraised(e) == e

\* f"Failed to initialize population: {str(e)}"
FailedToInitialize(e) ==
    [status |-> "error",
     message |-> IF e = OracleFailure THEN "Failed to initialize population: VecBookIndex failure"
                 ELSE "Failed to initialize population: target_barycenter cannot be an empty array"]

\* f"Evolution failed: {str(e)}"
EvolutionFailed(e) ==
    [status |-> "error",
     message |-> IF e = SampleError
                 THEN "Evolution failed: Sample larger than population or is negative"
                 ELSE "Evolution failed: Cannot choose from an empty sequence"]

\* `if not self.population` as it would be if an empty Population were falsy
NoPopulationOrEmpty(p) == p = None \/ p.individuals = <<>>

\* `if not self.population`: a Population is always truthy, whatever it holds
NoPopulation(p) == p = None

\* what a call leaves when it returns ret without having touched the engine's state
Returns(ret, made_calls) ==
    /\ result' = ret
    /\ calls' = made_calls
    /\ UNCHANGED <<population_size, elite_size, tournament_size, population, generation,
                   fitness_history, running, steps, made>>

\* EvolutionaryAlgorithm.update_population_size
UpdatePopulationSize(sizes) ==
    /\ running = "idle"
    /\ \E new_population_size \in sizes :
          /\ population_size' = new_population_size
          /\ args' = <<new_population_size>>
    /\ op' = "update_population_size"
    /\ result' = None
    /\ calls' = NoCalls
    /\ UNCHANGED <<elite_size, tournament_size, output_length, population, generation,
                   fitness_history, target_barycenter, running, steps, made>>

update_population_size == UpdatePopulationSize(0..MaxPop)

\* the refusal of an empty list as it would be if it also ended the run before
RejectEmptyTargetsResetting ==
    /\ result' = [status |-> "error", message |-> "Target strings list cannot be empty"]
    /\ calls' = NoCalls
    /\ population' = None
    /\ generation' = 0
    /\ fitness_history' = <<>>
    /\ UNCHANGED <<population_size, elite_size, tournament_size, output_length,
                   target_barycenter, running, steps, made>>

\* initialize_population on an empty list of target strings
RejectEmptyTargets ==
    /\ Returns([status |-> "error", message |-> "Target strings list cannot be empty"],
               NoCalls)
    /\ UNCHANGED <<output_length, target_barycenter>>

\* the Oracle's result as it would be returned if the engine wrapped its message
ReturnOracleResultWrapped(oracle_result, made_calls) ==
    Returns([status |-> "error",
             message |-> "Failed to initialize population: VecBookIndex error"],
            made_calls)

\* initialize_population when an Oracle call returned a result that is not a success
ReturnOracleResult(oracle_result, made_calls) == Returns(oracle_result, made_calls)

\* the candidates one pass of the sampling loop of initialize_population can append
SampledIndividuals(length) ==
    {Individual(t, f) : t \in generate_initial_variation(length), f \in FitnessOutcomes}

\* the lists the sampling loop of initialize_population can build in n passes
SampledLists(n, length) ==
    IF n = 0 THEN {<<>>} ELSE [1..n -> SampledIndividuals(length)]

\* the checks as they would be if only an empty array were refused
BarycenterProblemEmptyOnly(tb) ==
    IF tb /= None /\ tb.size = 0
    THEN [status |-> "error", message |-> "Target barycenter is empty"]
    ELSE None

\* the checks of the Oracle's vector before the Population is built: the error
\* result to return, or None when the vector passes
BarycenterProblem(tb) ==
    IF tb = None
    THEN [status |-> "error", message |-> "Target barycenter not properly set"]
    ELSE IF tb.size = 0
    THEN [status |-> "error", message |-> "Target barycenter is empty"]
    ELSE None

\* the end of initialize_population as it would be if generation and fitness
\* history were carried on from the run before
InitializeSampledCarriedOn(tb, called) ==
    LET made_calls == [called EXCEPT !.compare_against_barycenter = population_size,
                                     !.sampled = population_size]
    IN  IF BarycenterProblem(tb) /= None
        THEN Returns(BarycenterProblem(tb), made_calls)
        ELSE \E individuals \in SampledLists(population_size, output_length') :
               LET built == Population(individuals, tb, generation)
               IN  /\ population' = sort_by_fitness(built)
                   /\ generation' = generation
                   /\ fitness_history' = Append(fitness_history, population'.best_fitness)
                   /\ steps' = 0
                   /\ result' = [status |-> "success",
                                 message |-> "Population initialized successfully",
                                 population_size |-> Len(individuals),
                                 best_fitness |-> population'.best_fitness,
                                 average_fitness |-> population'.average_fitness,
                                 generation |-> generation']
                   /\ calls' = made_calls
                   /\ UNCHANGED <<population_size, elite_size, tournament_size,
                                  running, made>>

\* initialize_population from the sampling loop on: the Oracle has stored the
\* vector tb.  The loop samples and scores population_size candidates before the
\* vector is looked at.
InitializeSampled(tb, called) ==
    LET made_calls == [called EXCEPT !.compare_against_barycenter = population_size,
                                     !.sampled = population_size]
    IN  IF BarycenterProblem(tb) /= None
        THEN Returns(BarycenterProblem(tb), made_calls)
        ELSE \E individuals \in SampledLists(population_size, output_length') :
               LET built == Population(individuals, tb, 0)
               IN  IF Raised(built)
                   THEN Returns(FailedToInitialize(built), made_calls)
                   ELSE /\ population' = sort_by_fitness(built)
                        /\ generation' = 0
                        /\ fitness_history' = <<population'.best_fitness>>
                        /\ steps' = 0
                        /\ result' = [status |-> "success",
                                      message |-> "Population initialized successfully",
                                      population_size |-> Len(individuals),
                                      best_fitness |-> population'.best_fitness,
                                      average_fitness |-> population'.average_fitness,
                                      generation |-> generation']
                        /\ calls' = made_calls
                        /\ UNCHANGED <<population_size, elite_size, tournament_size,
                                       running, made>>

\* initialize_population on a list of target strings that is not empty
InitializeTargets(target_strings, length) ==
    /\ output_length' = length
    /\ \E target_result \in SetTargetOutcomes(target_strings) :
         LET called_set == [NoCalls EXCEPT !.set_target_strings = Did(target_result.returned)]
         IN  IF Raised(target_result.returned)
             THEN /\ Returns(FailedToInitialize(target_result.returned), called_set)
                  /\ UNCHANGED target_barycenter
             ELSE IF target_result.returned.status /= "success"
             THEN /\ ReturnOracleResult(target_result.returned, called_set)
                  /\ UNCHANGED target_barycenter
             ELSE /\ target_barycenter' = target_result.stored
                  /\ \E target_info \in GetTargetInfoOutcomes :
                       LET called_info == [called_set EXCEPT
                                             !.get_target_info = Did(target_info)]
                       IN  IF Raised(target_info)
                           THEN Returns(FailedToInitialize(target_info), called_info)
                           ELSE IF target_info.status /= "success"
                           THEN ReturnOracleResult(target_info, called_info)
                           ELSE InitializeSampled(target_barycenter', called_info)

\* initialize_population as it would be without the check of its argument
InitializeUnchecked(target_strings, length) == InitializeTargets(target_strings, length)

\* EvolutionaryAlgorithm.initialize_population(target_strings, output_length)
Initialize(target_strings, length) ==
    IF target_strings = <<>> THEN RejectEmptyTargets
    ELSE InitializeTargets(target_strings, length)

initialize_population ==
    /\ running = "idle"
    /\ \E target_strings \in TargetInputs, length \in 0..MaxOutLen :
         /\ op' = "initialize_population"
         /\ args' = <<target_strings, length>>
         /\ Initialize(target_strings, length)

\* one pass of the offspring loop up to the duplicate check: the mutated offspring
\* texts it can produce (by crossover of selected parents or by cloning a member),
\* or the exception it raises.  Offspring longer than MaxTextLen are not followed.
OffspringDraws(members, k, length) ==
    LET selected == select_parents(members, k, length)
        crossed == UNION {IF Raised(pair) THEN {pair}
                          ELSE {[text |-> t] :
                                  t \in UNION {mutate(c) :
                                      c \in crossover(pair.parent1.text, pair.parent2.text)}} :
                          pair \in selected}
        cloned == IF members = <<>> THEN {ChoiceError}
                  ELSE {[text |-> t] :
                          t \in UNION {mutate(members[i].text) : i \in 1..Len(members)}}
    IN  {d \in crossed \cup cloned : Raised(d) \/ Len(d.text) <= MaxTextLen}

\* the new generation with one more scored individual
Appended(s, text, fitness) ==
    [s EXCEPT !.new_individuals = Append(@, Individual(text, fitness)),
              !.existing_strings = @ \cup {text},
              !.scored = @ + 1]

\* the duplicate check as it would be if it looked at the elites only
SeenAmongElites(text, s) ==
    \E i \in 1..Min(elite_size, Len(s.new_individuals)) : s.new_individuals[i].text = text

\* `offspring_text in existing_strings`
Seen(text, s) == text \in s.existing_strings

\* one pass of the body of the offspring loop from loop state s
OffspringAttempt(s, draws) ==
    UNION {IF Raised(d) THEN {[s EXCEPT !.raised = d]}
           ELSE IF Seen(d.text, s) THEN {s}
           ELSE {Appended(s, d.text, f) : f \in FitnessOutcomes} :
           d \in draws}

\* the offspring loop, run from the loop states that `attempts` passes can have
\* led to: the loop states it can end in.  When a pass leads to the very same set
\* of loop states, the passes that remain do too, and only the budget ends them.
RECURSIVE OffspringLoop(_, _, _, _, _)
OffspringLoop(active, ended, attempts, size, draws) ==
    LET max_attempts == size * AttemptFactor
        looping == {s \in active : /\ s.raised = None
                                   /\ Len(s.new_individuals) < size
                                   /\ attempts < max_attempts}
        passed == UNION {OffspringAttempt(s, draws) : s \in looping}
    IN  IF looping = {} THEN ended \cup active
        ELSE OffspringLoop(passed, ended \cup (active \ looping),
                           IF passed = active THEN max_attempts ELSE attempts + 1,
                           size, draws)

\* the shortfall loop from loop state s: the loop states it can end in; when no
\* text of the output length is left unused it never ends
RECURSIVE ShortfallFill(_, _, _)
ShortfallFill(s, size, length) ==
    IF s.raised /= None \/ Len(s.new_individuals) >= size THEN {s}
    ELSE LET unused == generate_initial_variation(length) \ s.existing_strings
         IN  IF unused = {} THEN {[s EXCEPT !.hung = TRUE]}
             ELSE UNION {ShortfallFill(Appended(s, t, f), size, length) :
                           t \in unused, f \in FitnessOutcomes}

\* elitism as it would be if the elites were carried over unscored
EliteUnscored(individuals, elite) ==
    [i \in 1..Min(elite, Len(individuals)) |-> Individual(individuals[i].text, 0)]

\* elitism as it would be if the last individuals of the list were carried over
EliteFromTheEnd(individuals, elite) ==
    SubSeq(individuals, Len(individuals) - Min(elite, Len(individuals)) + 1, Len(individuals))

\* elitism: the individuals carried over unchanged
Elite(individuals, elite) == SubSeq(individuals, 1, Min(elite, Len(individuals)))

\* the two loops of evolve_generation: what they can leave, told apart by the new
\* generation, the number of candidates scored, the exception raised and whether
\* the call hangs
EvolveRuns ==
    LET elites == Elite(population.individuals, elite_size)
        start == [new_individuals |-> elites,
                  existing_strings |-> {elites[i].text : i \in 1..Len(elites)},
                  scored |-> 0, raised |-> None, hung |-> FALSE]
        draws == OffspringDraws(population.individuals, tournament_size, output_length)
        bred == OffspringLoop({start}, {}, 0, population_size, draws)
        filled == UNION {ShortfallFill(s, population_size, output_length) : s \in bred}
    IN  {[new_individuals |-> s.new_individuals, scored |-> s.scored,
          raised |-> s.raised, hung |-> s.hung] : s \in filled}

\* the replacement as it would be without the truncation to size
ReplacedUntruncated(p, new_individuals, size) ==
    sort_by_fitness(update_statistics(
        [p EXCEPT !.individuals = new_individuals, !.generation = @ + 1]))

\* the replacement as it would be if the generation were not counted
ReplacedUncounted(p, new_individuals, size) ==
    sort_by_fitness(update_statistics(
        [p EXCEPT !.individuals = SubSeq(new_individuals, 1, Min(size, Len(new_individuals)))]))

\* the replacement as it would be if the statistics were not recomputed
ReplacedStale(p, new_individuals, size) ==
    sort_by_fitness(
        [p EXCEPT !.individuals = SubSeq(new_individuals, 1, Min(size, Len(new_individuals))),
                  !.generation = @ + 1])

\* the replacement as it would be without the sort
ReplacedUnsorted(p, new_individuals, size) ==
    update_statistics(
        [p EXCEPT !.individuals = SubSeq(new_individuals, 1, Min(size, Len(new_individuals))),
                  !.generation = @ + 1])

\* the population with the new generation in place: truncated to size, counted,
\* its statistics updated, sorted
Replaced(p, new_individuals, size) ==
    sort_by_fitness(update_statistics(
        [p EXCEPT !.individuals = SubSeq(new_individuals, 1, Min(size, Len(new_individuals))),
                  !.generation = @ + 1]))

\* evolve_generation without a population as it would be without its first check:
\* the attribute error is caught by the handler of the try block
EvolveUninitializedUnguarded ==
    /\ Returns([status |-> "error",
                message |-> "Evolution failed: 'NoneType' object has no attribute 'individuals'"],
               NoCalls)
    /\ UNCHANGED <<output_length, target_barycenter>>

\* evolve_generation when there is no population
EvolveUninitialized ==
    /\ Returns([status |-> "error",
                message |-> "No population initialized. Call initialize_population first."],
               NoCalls)
    /\ UNCHANGED <<output_length, target_barycenter>>

\* the handler of the try block as it would be if the failed step were counted
EvolveFailsCounted(e, made_calls) ==
    /\ result' = EvolutionFailed(e)
    /\ calls' = made_calls
    /\ generation' = generation + 1
    /\ UNCHANGED <<population_size, elite_size, tournament_size, output_length,
                   population, fitness_history, target_barycenter, running, steps>>

\* the handler of the try block of evolve_generation: the error result for
\* exception e
EvolveFails(e, made_calls) ==
    /\ result' = EvolutionFailed(e)
    /\ calls' = made_calls
    /\ UNCHANGED <<population_size, elite_size, tournament_size, output_length,
                   population, generation, fitness_history, target_barycenter,
                   running, steps>>

\* the end of evolve_generation as it would be if the new best fitness were not
\* appended to the history
EvolveInstallsUnrecorded(new_individuals, made_calls) ==
    /\ population' = Replaced(population, new_individuals, population_size)
    /\ generation' = population'.generation
    /\ steps' = steps + 1
    /\ result' = [status |-> "success",
                  generation |-> generation',
                  best_fitness |-> population'.best_fitness,
                  average_fitness |-> population'.average_fitness,
                  population_size |-> Len(population'.individuals)]
    /\ calls' = made_calls
    /\ UNCHANGED <<population_size, elite_size, tournament_size, fitness_history,
                   output_length, target_barycenter, running>>

\* the end of evolve_generation when both loops are through: the new generation
\* replaces the old one, and the result says where the engine stands
EvolveInstalls(new_individuals, made_calls) ==
    /\ population' = Replaced(population, new_individuals, population_size)
    /\ generation' = population'.generation
    /\ fitness_history' = Append(fitness_history, population'.best_fitness)
    /\ steps' = steps + 1
    /\ result' = [status |-> "success",
                  generation |-> generation',
                  best_fitness |-> population'.best_fitness,
                  average_fitness |-> population'.average_fitness,
                  population_size |-> Len(population'.individuals)]
    /\ calls' = made_calls
    /\ UNCHANGED <<population_size, elite_size, tournament_size,
                   output_length, target_barycenter, running>>

\* evolve_generation on a population, for at most max_gen generations
EvolvePopulation(max_gen) ==
    /\ generation < max_gen
    /\ \E run \in EvolveRuns :
         LET made_calls == [NoCalls EXCEPT !.compare_against_barycenter = run.scored]
         IN  IF run.hung
             THEN /\ running' = "hung"
                  /\ calls' = made_calls
                  /\ UNCHANGED <<population_size, elite_size, tournament_size,
                                 output_length, population, generation,
                                 fitness_history, target_barycenter, result,
                                 steps, made>>
             ELSE IF run.raised /= None
             THEN EvolveFails(run.raised, made_calls) /\ UNCHANGED made
             ELSE EvolveInstalls(run.new_individuals, made_calls) /\ UNCHANGED made

\* EvolutionaryAlgorithm.evolve_generation
evolve_generation ==
    /\ running = "idle"
    /\ op' = "evolve_generation"
    /\ args' = <<>>
    /\ IF NoPopulation(population) THEN EvolveUninitialized
       ELSE EvolvePopulation(MaxGen)

\* the convergence rate as it would be without max(0.0, ...)
ConvergenceRateUnclamped(history) ==
    IF Len(history) >= 5
    THEN history[Len(history)] - history[Len(history) - 4]
    ELSE 0

\* the convergence rate get_status computes from the fitness history
ConvergenceRate(history) ==
    IF Len(history) >= 5
    THEN Max(0, history[Len(history)] - history[Len(history) - 4])
    ELSE 0

\* EvolutionaryAlgorithm.get_status
get_status ==
    /\ running = "idle"
    /\ op' = "get_status"
    /\ args' = <<>>
    /\ IF NoPopulation(population)
       THEN Returns([status |-> "error", message |-> "No population initialized"],
                    NoCalls)
       ELSE LET best_individual == get_best_individual(population)
            IN  Returns([status |-> "success",
                         current_generation |-> generation,
                         best_fitness |-> population.best_fitness,
                         average_fitness |-> population.average_fitness,
                         convergence_rate |-> ConvergenceRate(fitness_history),
                         best_string |-> IF best_individual /= None
                                         THEN best_individual.text ELSE <<>>,
                         is_complete |-> FALSE,
                         population_size |-> Len(population.individuals)],
                        NoCalls)
    /\ UNCHANGED <<output_length, target_barycenter>>

\* the list get_population_data builds from a list of individuals
PopulationData(individuals) ==
    [i \in 1..Len(individuals) |->
        [string |-> individuals[i].text, similarity |-> individuals[i].fitness]]

\* EvolutionaryAlgorithm.get_population_data; the list it returns is kept in the
\* field population_data of the result
get_population_data ==
    /\ running = "idle"
    /\ op' = "get_population_data"
    /\ args' = <<>>
    /\ Returns([population_data |-> IF NoPopulation(population) THEN <<>>
                                    ELSE PopulationData(population.individuals)],
               NoCalls)
    /\ UNCHANGED <<output_length, target_barycenter>>

(***************************************************************************)
(* The engine as a state machine.                                          *)
(***************************************************************************)
\* EvolutionaryAlgorithm.__init__; nothing was called yet, on the engine or on
\* the server
Constructed(size, elite, tournament) ==
    /\ population_size = size
    /\ elite_size = elite
    /\ tournament_size = tournament
    /\ output_length = DefaultOutputLength
    /\ population = None
    /\ target_barycenter = None
    /\ generation = 0
    /\ fitness_history = <<>>
    /\ running = "idle"
    /\ op = "none"
    /\ args = <<>>
    /\ result = None
    /\ calls = NoCalls
    /\ steps = 0
    /\ before = [generation |-> 0, fitness_history |-> 0]
    /\ made = None
    /\ state = [barycenter_vector |-> None, evolution_session |-> None]
    /\ request = None
    /\ pc = [at |-> "idle"]
    /\ response = None

\* an engine constructed with the run parameters a caller chooses
Init ==
    \E size \in 0..MaxPop, elite \in 0..MaxElite, tournament \in 1..MaxTour :
        Constructed(size, elite, tournament)

Next ==
    \/ update_population_size /\ UNCHANGED <<before, server_vars>>
    \/ initialize_population /\ UNCHANGED <<before, server_vars>>
    \/ evolve_generation /\ UNCHANGED <<before, server_vars>>
    \/ get_status /\ UNCHANGED <<before, server_vars>>
    \/ get_population_data /\ UNCHANGED <<before, server_vars>>

Spec == Init /\ [][Next]_vars

(***************************************************************************)
(* A long run of the engine: the caller leaves the run parameters alone    *)
(* and steps the engine for up to MaxRunGen generations after each         *)
(* initialization.                                                         *)
(***************************************************************************)
\* where the engine stands when a call begins
Began == [generation |-> generation, fitness_history |-> Len(fitness_history)]

\* EvolutionaryAlgorithm.evolve_generation, followed for MaxRunGen generations
evolve_generation_run ==
    /\ running = "idle"
    /\ op' = "evolve_generation"
    /\ args' = <<>>
    /\ IF NoPopulation(population) THEN EvolveUninitialized
       ELSE EvolvePopulation(MaxRunGen)

NextRun ==
    \/ initialize_population /\ before' = Began /\ UNCHANGED server_vars
    \/ evolve_generation_run /\ before' = Began /\ UNCHANGED server_vars
    \/ get_status /\ before' = Began /\ UNCHANGED server_vars

SpecRun == Init /\ [][NextRun]_vars

(***************************************************************************)
(* The HTTP layer (src/src/evolvattention/server.py).  Its handlers are    *)
(* coroutines that never await, so a request is served to its end before   *)
(* the next one is looked at; a handler that calls the engine more than    *)
(* once is followed call by call, and pc holds its place.  The server      *)
(* makes its engine with the defaults of EvolutionaryAlgorithm.__init__    *)
(* and shares its VecBookIndex with it.                                    *)
(***************************************************************************)
\* raise HTTPException(status_code=..., detail=...), as the response it becomes
HTTPException(status_code, detail) == [status_code |-> status_code, detail |-> detail]

\* a returned body, as the response it becomes
Ok(body) == [status_code |-> 200, body |-> body]

\* `except Exception as e: raise HTTPException(status_code=500, detail=f"{prefix}{str(e)}")`:
\* the detail keeps the prefix and the exception it was made from
ServerError(prefix, e) == HTTPException(500, [prefix |-> prefix, cause |-> e])

\* the exception a subscript of a missing key or of None raises
LookupFailure == [raised |-> "LookupError", message |-> "missing key"]

BarycenterRequests ==
    {[strings |-> strings] : strings \in TargetInputs \cup {<<"hello there">>}}

CosineSimilaritiesRequests ==
    {[strings |-> strings] : strings \in {<<>>, <<"hello there", "goodbye friend">>}}

EvolutionInitRequestsUpTo(max_size) ==
    {[target_strings |-> target_strings, population_size |-> size,
      step_generations |-> step_generations, output_length |-> length] :
        target_strings \in TargetInputs, size \in 0..max_size,
        step_generations \in 0..MaxStepGens, length \in 0..MaxOutLen}

\* the requests followed: the small populations, a request without target
\* strings for a population that the elites of the server's engine do not fill,
\* and a request with a negative step_generations (the field is any int)
EvolutionInitRequests ==
    EvolutionInitRequestsUpTo(MaxServerPop)
        \cup {[target_strings |-> <<>>, population_size |-> DefaultEliteSize + 1,
                step_generations |-> 1, output_length |-> 0]}
        \cup {[target_strings |-> <<"hello world", "goodbye friend">>,
                population_size |-> 0, step_generations |-> -1, output_length |-> 0]}

\* the strings to analyze, each as the words str.split() finds in it
AttentionAnalyzeRequests == {[string |-> words] : words \in {<<>>, <<"test", "string">>}}

Received(endpoint, req) == request' = [endpoint |-> endpoint, body |-> req]

\* a call the server makes of the Oracle itself
CalledOracle(name, arguments, returned, made_calls) ==
    /\ op' = name
    /\ args' = arguments
    /\ result' = returned
    /\ calls' = made_calls
    /\ UNCHANGED <<population_size, elite_size, tournament_size, output_length, population,
                   generation, fitness_history, running, steps, before, made>>

\* POST /api/v1/barycenter
barycenter ==
    /\ pc.at = "idle"
    /\ \E req \in BarycenterRequests : \E target_result \in SetTargetOutcomes(req.strings) :
         LET returned == target_result.returned
         IN  /\ Received("/api/v1/barycenter", req)
             /\ CalledOracle("set_target_strings", <<req.strings>>, returned,
                             [NoCalls EXCEPT !.set_target_strings = Did(returned)])
             /\ IF Raised(returned)
                THEN /\ response' = ServerError("Error calculating barycenter: ", returned)
                     /\ UNCHANGED <<state, target_barycenter>>
                ELSE IF returned.status = "success"
                THEN /\ target_barycenter' = target_result.stored
                     /\ state' = [state EXCEPT !.barycenter_vector =
                                    [target_strings |-> req.strings,
                                     target_count |-> Len(req.strings),
                                     barycenter_dimension |->
                                        IF target_result.stored = None THEN 0
                                        ELSE target_result.stored.size]]
                     /\ response' = Ok([status |-> "success"])
                ELSE /\ response' = ServerError("Error calculating barycenter: ",
                                                HTTPException(400, returned.message))
                     /\ UNCHANGED <<state, target_barycenter>>
    /\ UNCHANGED pc

\* what compare_against_barycenter(strings) can do for the server: give one
\* similarity per string, give an empty list, or raise
CompareListOutcomes(strings) ==
    {[kind |-> "similarities", similarities |-> c] :
        c \in IF strings = <<>> THEN {} ELSE [1..Len(strings) -> Similarities]}
        \cup {[kind |-> "empty"], [kind |-> "raise"]}

\* POST /api/v1/cosine-similarities
cosine ==
    /\ pc.at = "idle"
    /\ \E req \in CosineSimilaritiesRequests :
         /\ Received("/api/v1/cosine-similarities", req)
         /\ IF state.barycenter_vector = None
            THEN /\ response' = HTTPException(400, "No barycenter set. Call /barycenter first.")
                 /\ UNCHANGED <<engine_vars, made>>
            ELSE \E results \in CompareListOutcomes(req.strings) :
                   /\ CalledOracle("compare_against_barycenter", <<req.strings>>,
                                   IF results.kind = "raise" THEN OracleFailure ELSE results,
                                   [NoCalls EXCEPT !.compare_against_barycenter = 1])
                   /\ UNCHANGED target_barycenter
                   /\ response' =
                         IF results.kind = "similarities"
                         THEN Ok([status |-> "success",
                                  data |-> [similarities |-> results.similarities]])
                         ELSE IF results.kind = "empty"
                         THEN ServerError("Error calculating similarities: ",
                                          HTTPException(500, "Failed to calculate similarities"))
                         ELSE ServerError("Error calculating similarities: ", OracleFailure)
    /\ UNCHANGED <<state, pc>>

\* POST /api/v1/evolution/initialize, up to the call of update_population_size
EvolutionInitialize(requests) ==
    /\ pc.at = "idle"
    /\ \E req \in requests :
         /\ Received("/api/v1/evolution/initialize", req)
         /\ UpdatePopulationSize({req.population_size})
    /\ pc' = [at |-> "initialize_population"]
    /\ UNCHANGED <<before, state, response>>

evolution_initialize == EvolutionInitialize(EvolutionInitRequests)

\* POST /api/v1/evolution/initialize, from the call of initialize_population on:
\* the engine is not given the output_length of the request
evolution_initialize_population ==
    /\ pc.at = "initialize_population"
    /\ running = "idle"
    /\ op' = "initialize_population"
    /\ args' = <<request.body.target_strings, DefaultOutputLength>>
    /\ Initialize(request.body.target_strings, DefaultOutputLength)
    /\ IF result'.status /= "success"
       THEN /\ response' = ServerError("Error initializing evolution: ",
                                       HTTPException(400, result'.message))
            /\ UNCHANGED state
       ELSE /\ state' = [state EXCEPT !.evolution_session =
                           [target_strings |-> request.body.target_strings,
                            population_size |-> request.body.population_size,
                            step_generations |-> request.body.step_generations,
                            output_length |-> request.body.output_length,
                            generation |-> 0]]
            /\ response' = Ok([status |-> "success",
                               data |-> [population_size |-> request.body.population_size,
                                         step_generations |-> request.body.step_generations,
                                         output_length |-> request.body.output_length,
                                         population |->
                                            PopulationData(population'.individuals)]])
    /\ pc' = [at |-> "idle"]
    /\ UNCHANGED <<before, request>>

\* POST /api/v1/evolution/step as it would be without its first check: the lookup
\* of step_generations in a session that is None fails inside the try block
evolution_step_unguarded ==
    /\ pc.at = "idle"
    /\ Received("/api/v1/evolution/step", None)
    /\ IF state.evolution_session = None
       THEN /\ response' = ServerError("Error during evolution step: ", LookupFailure)
            /\ UNCHANGED pc
       ELSE /\ generation + state.evolution_session.step_generations <= MaxGen
            /\ pc' = [at |-> "evolve_generation",
                      remaining |-> Max(0, state.evolution_session.step_generations)]
            /\ UNCHANGED response
    /\ UNCHANGED <<engine_vars, made, state>>

\* POST /api/v1/evolution/step, up to the loop over the generations: range(n)
\* is empty for n <= 0 (requests that would take the engine beyond MaxGen
\* generations are not followed)
evolution_step ==
    /\ pc.at = "idle"
    /\ Received("/api/v1/evolution/step", None)
    /\ IF state.evolution_session = None
       THEN /\ response' = HTTPException(400, "No active evolution session")
            /\ UNCHANGED pc
       ELSE /\ generation + state.evolution_session.step_generations <= MaxGen
            /\ pc' = [at |-> "evolve_generation",
                      remaining |-> Max(0, state.evolution_session.step_generations)]
            /\ UNCHANGED response
    /\ UNCHANGED <<engine_vars, made, state>>

\* POST /api/v1/evolution/step: one pass of the loop over the generations
evolution_step_generation ==
    /\ pc.at = "evolve_generation"
    /\ pc.remaining > 0
    /\ evolve_generation
    /\ IF running' = "hung"
       THEN UNCHANGED <<pc, response>>
       ELSE IF result'.status /= "success"
       THEN /\ response' = ServerError("Error during evolution step: ",
                                       HTTPException(500, result'.message))
            /\ pc' = [at |-> "idle"]
       ELSE /\ pc' = [pc EXCEPT !.remaining = @ - 1]
            /\ UNCHANGED response
    /\ UNCHANGED <<before, state, request>>

\* the end of the step request as it would be if the session were not told the
\* engine's generation
evolution_step_respond_unrecorded ==
    /\ pc.at = "evolve_generation"
    /\ pc.remaining = 0
    /\ UNCHANGED state
    /\ get_status
    /\ response' =
          IF result'.status = "success"
          THEN Ok([status |-> "success",
                   data |-> [generation |-> state.evolution_session.generation,
                             best_fitness |-> result'.best_fitness,
                             average_fitness |-> result'.average_fitness,
                             median_fitness |-> result'.average_fitness,
                             population |-> IF NoPopulation(population) THEN <<>>
                                            ELSE PopulationData(population.individuals)]])
          ELSE ServerError("Error during evolution step: ", LookupFailure)
    /\ pc' = [at |-> "idle"]
    /\ UNCHANGED <<before, request>>

\* POST /api/v1/evolution/step, after the loop: the session takes the engine's
\* generation, and the answer is built from get_population_data and get_status
evolution_step_respond ==
    /\ pc.at = "evolve_generation"
    /\ pc.remaining = 0
    /\ state' = [state EXCEPT !.evolution_session.generation = generation]
    /\ get_status
    /\ response' =
          IF result'.status = "success"
          THEN Ok([status |-> "success",
                   data |-> [generation |-> state'.evolution_session.generation,
                             best_fitness |-> result'.best_fitness,
                             average_fitness |-> result'.average_fitness,
                             median_fitness |-> result'.average_fitness,
                             population |-> IF NoPopulation(population) THEN <<>>
                                            ELSE PopulationData(population.individuals)]])
          ELSE ServerError("Error during evolution step: ", LookupFailure)
    /\ pc' = [at |-> "idle"]
    /\ UNCHANGED <<before, request>>

\* GET /api/v1/evolution/status
evolution_status ==
    /\ pc.at = "idle"
    /\ Received("/api/v1/evolution/status", None)
    /\ IF state.evolution_session = None
       THEN /\ response' = HTTPException(400, "No active evolution session")
            /\ UNCHANGED <<engine_vars, made>>
       ELSE /\ get_status
            /\ UNCHANGED before
            /\ response' =
                  IF result'.status = "success"
                  THEN Ok([status |-> "success",
                           data |-> [current_generation |-> result'.current_generation,
                                     best_fitness |-> result'.best_fitness,
                                     convergence_rate |-> result'.convergence_rate,
                                     best_string |-> result'.best_string,
                                     is_complete |-> result'.is_complete]])
                  ELSE ServerError("Error getting evolution status: ",
                                   HTTPException(500, result'.message))
    /\ UNCHANGED <<state, pc>>

\* the components attention_analyze scores: the words of the string, or the
\* string itself when it has none
Components(words) == IF words = <<>> THEN <<"">> ELSE words

\* the score of one component: the Oracle's similarity as it is, 0.0 for an empty
\* result
Score(outcome) == IF outcome.kind = "similarity" THEN outcome.cosine_similarity ELSE 0

\* POST /api/v1/attention/analyze
attention_analyze ==
    /\ pc.at = "idle"
    /\ \E req \in AttentionAnalyzeRequests :
         /\ Received("/api/v1/attention/analyze", req)
         /\ IF state.barycenter_vector = None
            THEN /\ response' = HTTPException(400,
                                    "No barycenter available. Call /barycenter first.")
                 /\ UNCHANGED <<engine_vars, made>>
            ELSE LET components == Components(req.string)
                 IN  \E outcomes \in [1..Len(components) -> CompareOutcomes] :
                       LET raising == {i \in 1..Len(components) : outcomes[i].kind = "raise"}
                           asked == IF raising = {} THEN Len(components)
                                    ELSE CHOOSE i \in raising : \A j \in raising : i <= j
                           scores == [i \in 1..Len(components) |-> Score(outcomes[i])]
                       IN  /\ CalledOracle("compare_against_barycenter",
                                           <<<<components[asked]>>>>,
                                           IF raising = {} THEN outcomes[asked]
                                           ELSE OracleFailure,
                                           [NoCalls EXCEPT
                                              !.compare_against_barycenter = asked])
                           /\ UNCHANGED target_barycenter
                           /\ response' =
                                 IF raising /= {}
                                 THEN ServerError("Error analyzing attention: ", OracleFailure)
                                 ELSE Ok([status |-> "success",
                                          data |-> [components |->
                                                      [i \in 1..Len(components) |->
                                                         [text |-> components[i],
                                                          score |-> scores[i],
                                                          position |-> i - 1]],
                                                    overall_score |->
                                                      Frac(SumSeq(scores), Len(components))]])
    /\ UNCHANGED <<state, pc>>

\* the server as it starts: no request was served, and the engine is the one
\* get_evolutionary_algorithm makes
InitServer ==
    Constructed(DefaultPopulationSize, DefaultEliteSize, DefaultTournamentSize)

NextServer ==
    \/ barycenter
    \/ cosine
    \/ evolution_initialize
    \/ evolution_initialize_population
    \/ evolution_step
    \/ evolution_step_generation
    \/ evolution_step_respond
    \/ evolution_status
    \/ attention_analyze

SpecServer == InitServer /\ [][NextServer]_vars

(***************************************************************************)
(* The initialize endpoint on its own, with requests that ask for           *)
(* individuals.  The engine samples texts of DefaultOutputLength            *)
(* characters for them.                                                    *)
(***************************************************************************)
evolution_initialize_sized == EvolutionInitialize(EvolutionInitRequestsUpTo(MaxInitPop))

NextServerInit ==
    \/ evolution_initialize_sized
    \/ evolution_initialize_population
    \/ evolution_status

SpecServerInit == InitServer /\ [][NextServerInit]_vars

(***************************************************************************)
(* Population on its own: a caller constructs one from any list of         *)
(* individuals and any vector.                                             *)
(***************************************************************************)
\* the individuals a caller may hand over
AnyIndividuals ==
    {Individual(t, f) : t \in UNION {Strings(n) : n \in 0..MaxOutLen}, f \in 0..FitMax}

\* the vectors a caller may hand over
AnyVectors == {None, ndarray(<<>>), ndarray(<<1>>), ndarray(<<1, 2>>)}

\* Population(individuals=..., target_barycenter=...)
construct_population ==
    /\ \E individuals \in UNION {[1..n -> AnyIndividuals] : n \in 0..MaxPop},
          tb \in AnyVectors :
         made' = [individuals |-> individuals, target_barycenter |-> tb,
                  value |-> Population(individuals, tb, 0)]
    /\ UNCHANGED <<engine_vars, server_vars>>

SpecPopulation == Init /\ [][construct_population]_vars

(***************************************************************************)
(* _crossover and _mutate on their own: a caller hands them any texts, and *)
(* every outcome of their random draws is followed.  The methods keep no   *)
(* state between calls, so one call is followed from each initial state.   *)
(***************************************************************************)
\* the texts a caller may hand over
Operands ==
    UNION {[1..n -> {POPULATION_ALPHABET[i] : i \in 1..OperandAlphabetSize}] :
            n \in 0..MaxOperandLen}

\* self._crossover(parent1, parent2)
call_crossover ==
    /\ made = None
    /\ \E parent1_text \in Operands, parent2_text \in Operands :
         \E from1 \in SUBSET (1..Max(Len(parent1_text), Len(parent2_text))) :
            LET offspring_text == Mixed(parent1_text, parent2_text, from1)
            IN  made' = [call |-> "crossover",
                         parent1 |-> parent1_text, parent2 |-> parent2_text,
                         offspring_text |-> offspring_text,
                         value |-> Cleaned(offspring_text, parent1_text, parent2_text)]
    /\ UNCHANGED <<engine_vars, server_vars>>

\* self._mutate(individual)
call_mutate ==
    /\ made = None
    /\ \E text \in Operands, fired \in SUBSET Trials :
         \E mutated \in MutationSteps(text, fired) :
            made' = [call |-> "mutate", text |-> text, fired |-> fired,
                     substituted |-> mutated.substituted, inserted |-> mutated.inserted,
                     value |-> mutated.value]
    /\ UNCHANGED <<engine_vars, server_vars>>

\* the populations a caller may have installed before it selects parents
SelectionOperands ==
    UNION {[1..n -> {Individual(<<c>>, f) : c \in Alphabet, f \in 0..FitMax}] :
            n \in 0..MaxSelectionLen}

\* self._select_parents()
call_select_parents ==
    /\ made = None
    /\ \E members \in SelectionOperands, k \in 1..MaxSelectionTour, length \in 0..MaxOutLen :
         IF k > Len(members)
         THEN made' = [call |-> "select_parents", members |-> members, k |-> k,
                       raised |-> SampleError]
         ELSE \E first \in FirstChoices(members, k) :
                \E second \in SecondChoices(members, k, length, first.parent1) :
                   made' = [call |-> "select_parents", members |-> members, k |-> k,
                            length |-> length, first |-> first, second |-> second,
                            value |-> <<first.parent1, second.parent2>>]
    /\ UNCHANGED <<engine_vars, server_vars>>

NextOperators ==
    \/ call_crossover
    \/ call_mutate
    \/ call_select_parents

SpecOperators == Init /\ [][NextOperators]_vars

(***************************************************************************)
(* evolve_generation pass by pass.  The call is followed through its two   *)
(* loops one pass at a time; `made` holds its local variables, and no      *)
(* other call is made of the engine until it has returned (the engine is   *)
(* used by one caller); the initializations come first, the steps after.   *)
(* `before` remembers the output_length of the last successful             *)
(* initialization.                                                         *)
(***************************************************************************)
Stepping == made /= None /\ made.at /= "returned"

\* the loop conditions as they would be without the attempt budget
AtLoopHeadUnbudgeted(s) ==
    [s EXCEPT !.at = IF Len(s.new_individuals) >= population_size THEN "install"
                     ELSE "offspring"]

\* where evolve_generation stands once the loop conditions are evaluated: at the
\* body of the offspring loop, at the body of the shortfall loop, or past both
AtLoopHead(s) ==
    [s EXCEPT !.at =
        IF s.at = "offspring" /\ Len(s.new_individuals) < population_size
                              /\ s.attempts < s.max_attempts
        THEN "offspring"
        ELSE IF Len(s.new_individuals) < population_size THEN "shortfall"
        ELSE "install"]

\* a candidate is scored and appended by loop `by`; the Oracle's comparison gave
\* `outcome`
ScoredAndAppended(s, text, outcome, by) ==
    [Appended(s, text, evaluate_fitness(outcome)) EXCEPT
        !.appended = Append(@, [by |-> by, scoring |-> outcome.kind])]

\* initialize_population before the steps that are followed
initialize_before_steps ==
    /\ made = None
    /\ initialize_population
    /\ before' = IF result'.status = "success" THEN [output_length |-> args'[2]]
                 ELSE before
    /\ UNCHANGED server_vars

\* evolve_generation up to the offspring loop: the guard, elitism, the set of
\* used texts and the attempt budget; the call has begun and has returned nothing
\* yet
evolve_generation_begin ==
    /\ running = "idle"
    /\ ~Stepping
    /\ IF NoPopulation(population)
       THEN /\ op' = "evolve_generation"
            /\ args' = <<>>
            /\ EvolveUninitialized
            /\ UNCHANGED before
       ELSE /\ generation < MaxLoopGen
            /\ LET elites == Elite(population.individuals, elite_size)
               IN  made' = AtLoopHead(
                        [call |-> "evolve_generation", at |-> "offspring",
                         elites |-> Len(elites),
                         new_individuals |-> elites,
                         existing_strings |-> {elites[i].text : i \in 1..Len(elites)},
                         attempts |-> 0,
                         max_attempts |-> population_size * AttemptFactor,
                         discarded |-> 0, scored |-> 0, appended |-> <<>>,
                         raised |-> None])
            /\ op' = "evolve_generation"
            /\ args' = <<>>
            /\ result' = None
            /\ calls' = NoCalls
            /\ UNCHANGED <<population_size, elite_size, tournament_size, output_length,
                           population, generation, fitness_history, target_barycenter,
                           running, steps, before>>
    /\ UNCHANGED server_vars

\* the skip of a duplicate as it would be if the offspring were scored before
\* the look at existing_strings
DiscardedAfterScoring(s) == [s EXCEPT !.discarded = @ + 1, !.scored = @ + 1]

\* `continue` on an offspring whose text is in existing_strings: nothing but the
\* attempt is counted
Discarded(s) == [s EXCEPT !.discarded = @ + 1]

\* one pass of the body of the offspring loop
evolve_generation_offspring ==
    /\ Stepping
    /\ made.at = "offspring"
    /\ \E d \in OffspringDraws(population.individuals, tournament_size, output_length) :
         LET counted == [made EXCEPT !.attempts = @ + 1]
         IN  IF Raised(d)
             THEN made' = [counted EXCEPT !.raised = d, !.at = "except"]
             ELSE IF Seen(d.text, made)
             THEN made' = AtLoopHead(Discarded(counted))
             ELSE \E outcome \in CompareOutcomes :
                    made' = AtLoopHead(ScoredAndAppended(counted, d.text, outcome, "offspring"))
    /\ UNCHANGED <<engine_vars, server_vars>>

\* the shortfall loop up to its next append: draws of used texts change nothing,
\* and when every text of the output length is used the loop never ends
evolve_generation_shortfall ==
    /\ Stepping
    /\ made.at = "shortfall"
    /\ running = "idle"
    /\ LET unused == {t \in generate_initial_variation(output_length) : ~Seen(t, made)}
       IN  IF unused = {}
           THEN /\ running' = "hung"
                /\ UNCHANGED <<population_size, elite_size, tournament_size, output_length,
                               population, generation, fitness_history, target_barycenter,
                               op, args, result, calls, steps, before, made>>
           ELSE /\ \E t \in unused, outcome \in CompareOutcomes :
                     made' = AtLoopHead(ScoredAndAppended(made, t, outcome, "shortfall"))
                /\ UNCHANGED engine_vars
    /\ UNCHANGED server_vars

\* the end of evolve_generation: the new generation is installed, or the handler
\* of the try block returns the error
evolve_generation_return ==
    /\ Stepping
    /\ made.at \in {"install", "except"}
    /\ UNCHANGED <<op, args>>
    /\ LET made_calls == [NoCalls EXCEPT !.compare_against_barycenter = made.scored]
       IN  IF made.at = "except" THEN EvolveFails(made.raised, made_calls)
           ELSE EvolveInstalls(made.new_individuals, made_calls)
    /\ made' = [made EXCEPT !.at = "returned"]
    /\ UNCHANGED <<before, server_vars>>

NextStep ==
    \/ initialize_before_steps
    \/ evolve_generation_begin
    \/ evolve_generation_offspring
    \/ evolve_generation_shortfall
    \/ evolve_generation_return

SpecStep == Init /\ [][NextStep]_vars

(***************************************************************************)
(* Properties.                                                             *)
(***************************************************************************)
Succeeded(name) == op = name /\ running = "idle" /\ result.status = "success"

\* the messages that mention emptiness ("empty" in message.lower())
EmptinessMessages ==
    {"Target strings list cannot be empty", "Target barycenter is empty",
     "Failed to initialize population: target_barycenter cannot be an empty array"}

\* the messages that say nothing is initialized ("initialized" in message.lower())
UninitializedMessages ==
    {"No population initialized. Call initialize_population first.",
     "No population initialized"}

\* C1 (size invariant): whenever evolve_generation has returned success, the
\* population holds exactly population_size individuals, and the result's
\* population_size field is that number; update_population_size may have changed
\* the size since the initialization.
SizeInvariant ==
    Succeeded("evolve_generation") =>
        /\ Len(population.individuals) = population_size
        /\ result.population_size = population_size

\* a successful step that truncated: the run was initialized with at least one
\* individual, the size was then set to 0, and the one elite was cut off
SizeInvariantWitness ==
    /\ Succeeded("evolve_generation")
    /\ elite_size = 1
    /\ population_size = 0
    /\ steps = 1
    /\ fitness_history[1] = FitMax

\* C2 (generation monotonicity): generation is 0 after a successful
\* initialize_population; it is the number of generation steps that have succeeded
\* since, each of them adding exactly 1; the n-th successful step reports n.
GenerationMonotonicity ==
    /\ Succeeded("initialize_population") => generation = 0
    /\ population /= None => generation = steps /\ population.generation = steps
    /\ Succeeded("evolve_generation") => result.generation = steps /\ steps >= 1

\* the second successful step of a run has returned
GenerationMonotonicityWitness ==
    /\ Succeeded("evolve_generation")
    /\ steps = 2
    /\ result.generation = 2

\* C3 (fitness bounds): every individual of the population has a fitness in
\* [0, 1] (0..FitMax on the grid), whatever the Oracle returned for it.
FitnessBounds ==
    population /= None =>
        \A i \in 1..Len(population.individuals) :
            /\ 0 <= population.individuals[i].fitness
            /\ population.individuals[i].fitness <= FitMax

\* a generation step has scored candidates, and the population holds both ends of
\* the range
FitnessBoundsWitness ==
    /\ Succeeded("evolve_generation")
    /\ calls.compare_against_barycenter >= 1
    /\ \E i, j \in 1..Len(population.individuals) :
         /\ population.individuals[i].fitness = FitMax
         /\ population.individuals[j].fitness = 0

ElitesCarried ==
    (op' = "evolve_generation" /\ running' = "idle" /\ result'.status = "success"
        /\ elite_size <= population_size) =>
        \A i \in 1..Min(elite_size, Len(population.individuals)) :
            \E j \in 1..Len(population'.individuals) :
                population'.individuals[j] = population.individuals[i]

\* C4 (elitism exactness): in every successful generation step with
\* elite_size <= population_size, each of the first elite_size individuals of the
\* population before the step is in the population after it, with the same text
\* and the same fitness.
ElitismExactness == [][ElitesCarried]_vars

\* a step has carried one elite of fitness FitMax over and scored one offspring
ElitismExactnessWitness ==
    /\ Succeeded("evolve_generation")
    /\ elite_size = 1
    /\ population_size = 2
    /\ calls.compare_against_barycenter = 1
    /\ fitness_history[Len(fitness_history) - 1] = FitMax

EmptyTargetsRejected ==
    (op' = "initialize_population" /\ args'[1] = <<>>) =>
        /\ result'.status = "error"
        /\ result'.message \in EmptinessMessages
        /\ calls' = NoCalls
        /\ UNCHANGED <<population, generation, fitness_history, target_barycenter>>

\* C5 (empty-target rejection): initialize_population on an empty list of target
\* strings returns an error whose message mentions emptiness, calls no method of
\* the Oracle, and leaves population, generation and fitness history as they were.
EmptyTargetRejection == [][EmptyTargetsRejected]_vars

\* an engine with a run in progress has refused an empty list
EmptyTargetRejectionWitness ==
    /\ op = "initialize_population"
    /\ args[1] = <<>>
    /\ population /= None
    /\ generation = 1

OracleResultPassed ==
    (op' = "initialize_population"
        /\ (calls'.set_target_strings = "error" \/ calls'.get_target_info = "error")) =>
        /\ result' = OracleError
        /\ calls'.sampled = 0
        /\ calls'.compare_against_barycenter = 0
        /\ UNCHANGED <<population, generation, fitness_history>>

\* C6 (Oracle error pass-through): when set_target_strings or get_target_info
\* returns a result that is not a success, initialize_population returns that very
\* result, samples and scores no candidate, and installs no population.
OraclePassThrough == [][OracleResultPassed]_vars

\* get_target_info has refused after set_target_strings succeeded
OraclePassThroughWitness ==
    /\ op = "initialize_population"
    /\ calls.set_target_strings = "success"
    /\ calls.get_target_info = "error"
    /\ result = OracleError
    /\ population = None

MissingVector(tb) == tb = None \/ tb.size = 0

InconsistentOracleRejected ==
    /\ population' /= None => ~MissingVector(population'.target_barycenter)
    /\ (op' = "initialize_population"
          /\ calls'.set_target_strings = "success"
          /\ calls'.get_target_info = "success"
          /\ MissingVector(target_barycenter')) =>
          /\ result'.status = "error"
          /\ population' = population

\* C8 (inconsistent-oracle rejection): when both Oracle calls report success but
\* the Oracle's vector is missing or has zero length, initialize_population
\* returns an error and installs no population; so the vector of the engine's
\* population is always present and non-empty.
InconsistentOracleRejection == [][InconsistentOracleRejected]_vars

\* the Oracle reported success and holds no vector; the run in progress is kept
InconsistentOracleRejectionWitness ==
    /\ op = "initialize_population"
    /\ calls.set_target_strings = "success"
    /\ calls.get_target_info = "success"
    /\ target_barycenter = None
    /\ result.status = "error"
    /\ population /= None

\* C9 (uninitialized step): while no population exists, generation is 0 and the
\* fitness history is empty, and evolve_generation returns an error that says
\* nothing is initialized, without a call to the Oracle.
UninitializedStep ==
    population = None =>
        /\ generation = 0
        /\ fitness_history = <<>>
        /\ op = "evolve_generation" =>
              /\ result.status = "error"
              /\ result.message \in UninitializedMessages
              /\ calls = NoCalls

\* a step was asked of an engine whose only initialization had failed
UninitializedStepWitness ==
    /\ op = "evolve_generation"
    /\ population = None
    /\ target_barycenter /= None

\* C10 (uninitialized status): get_status returns an error when no population
\* exists, and otherwise a success that carries current_generation, best_fitness,
\* convergence_rate, best_string and is_complete.
StatusResult ==
    op = "get_status" =>
        IF population = None
        THEN result.status = "error"
        ELSE /\ result.status = "success"
             /\ {"current_generation", "best_fitness", "convergence_rate",
                 "best_string", "is_complete"} \subseteq DOMAIN result
             /\ result.current_generation = generation

\* the status of an initialized engine whose population is empty
StatusResultWitness ==
    /\ op = "get_status"
    /\ population /= None
    /\ population.individuals = <<>>
    /\ result.status = "success"

\* the character of a parent at position i once the parent is padded with spaces
PaddedChar(text, i) == IF i <= Len(text) THEN text[i] ELSE " "

HasContent(text) == \E i \in 1..Len(text) : text[i] /= " "

Crossed == made /= None /\ made.call = "crossover"

\* what the claims on crossover share: the offspring built before stripping has the
\* length of the longer parent and carries at each position the character of one
\* of the padded parents
MixedFromParents ==
    /\ Len(made.offspring_text) = Max(Len(made.parent1), Len(made.parent2))
    /\ \A i \in 1..Len(made.offspring_text) :
          made.offspring_text[i] \in {PaddedChar(made.parent1, i), PaddedChar(made.parent2, i)}

\* C18 as stated (crossover length and provenance): the offspring built before
\* stripping has length max(len(parent1), len(parent2)) and carries at each
\* position the character of parent 1 or of parent 2; the returned text is that
\* string stripped, so it is never longer than the longer parent.
CrossoverReturnsStrippedMix ==
    Crossed =>
        /\ MixedFromParents
        /\ made.value = strip(made.offspring_text)
        /\ Len(made.value) <= Max(Len(made.parent1), Len(made.parent2))

\* C18 as amended: the offspring built before stripping has the length of the
\* longer parent and carries at each position the character of parent 1 or of
\* parent 2; the returned text is that string stripped when stripping leaves
\* anything, and otherwise the stripped text of one of the parents; in either
\* case it is never longer than the longer parent.
CrossoverLengthProvenance ==
    Crossed =>
        /\ MixedFromParents
        /\ strip(made.offspring_text) /= <<>> => made.value = strip(made.offspring_text)
        /\ strip(made.offspring_text) = <<>> =>
              made.value \in {strip(made.parent1), strip(made.parent2)}
        /\ Len(made.value) <= Max(Len(made.parent1), Len(made.parent2))

\* parents "a " and " b" whose mix took the space of each: the text of parent 1 is
\* returned instead of the empty mix
CrossoverLengthProvenanceWitness ==
    /\ Crossed
    /\ made.parent1 = <<"a", " ">>
    /\ made.parent2 = <<" ", "b">>
    /\ made.offspring_text = <<" ", " ">>
    /\ made.value = <<"a">>

\* C19 (crossover never yields an empty string): when at least one parent holds a
\* character that is not a space, the returned text is not empty, whatever the
\* per-position choices; when stripping the mix leaves nothing, the returned text
\* is the stripped text of parent 1 if that is not empty, otherwise of parent 2.
CrossoverNonEmpty ==
    (Crossed /\ (HasContent(made.parent1) \/ HasContent(made.parent2))) =>
        /\ made.value /= <<>>
        /\ strip(made.offspring_text) = <<>> =>
              made.value = IF HasContent(made.parent1) THEN strip(made.parent1)
                           ELSE strip(made.parent2)

\* parent 1 is blank, the mix came out blank, and the text of parent 2 is returned
CrossoverNonEmptyWitness ==
    /\ Crossed
    /\ made.parent1 = <<" ">>
    /\ made.parent2 = <<" ", "a">>
    /\ made.offspring_text = <<" ", " ">>
    /\ made.value = <<"a">>

\* C20 (mutation deletion floor): for every text that is not empty and every
\* outcome of the three mutation trials the mutated text is not empty; a text of
\* one character is never reduced to none.
MutationDeletionFloor ==
    (made /= None /\ made.call = "mutate" /\ made.text /= <<>>) => made.value /= <<>>

\* the deletion trial fired alone on a text of one character and left it whole
MutationDeletionFloorWitness ==
    /\ made /= None
    /\ made.call = "mutate"
    /\ made.fired = {"deletion"}
    /\ made.text = <<"b">>
    /\ made.value = <<"b">>

\* C13 (no exception crosses the engine boundary): whatever the engine's state,
\* the input and the Oracle's behaviour, what initialize_population,
\* evolve_generation and get_status return is a result whose status is success or
\* error, never an exception.
NoExceptionCrosses ==
    (op \in {"initialize_population", "evolve_generation", "get_status"}
        /\ running = "idle") =>
        /\ ~Raised(result)
        /\ "status" \in DOMAIN result
        /\ result.status \in {"success", "error"}

\* the Oracle raised in set_target_strings and the caller got an error result
NoExceptionCrossesWitness ==
    /\ op = "initialize_population"
    /\ calls.set_target_strings = "raise"
    /\ result = [status |-> "error",
                 message |-> "Failed to initialize population: VecBookIndex failure"]

\* C14 (termination of a generation step): evolve_generation always runs to
\* completion and returns: no call of it is left in the offspring loop or in the
\* shortfall loop for ever, whatever population_size, elite_size and
\* output_length >= 0.
StepTermination == running /= "hung"

\* C16 (statistics consistency): the population's best_fitness is the largest and
\* its average_fitness the mean of the fitness values of its individuals (both 0
\* when there are none), and a successful initialize_population or
\* evolve_generation reports these two values.
StatisticsConsistency ==
    /\ population /= None =>
          LET fitnesses == Fitnesses(population.individuals)
              n == Len(fitnesses)
          IN  IF n = 0
              THEN /\ population.best_fitness = 0
                   /\ population.average_fitness.num = 0
              ELSE /\ \A i \in 1..n : fitnesses[i] <= population.best_fitness
                   /\ \E i \in 1..n : fitnesses[i] = population.best_fitness
                   /\ population.average_fitness.num * n
                         = SumSeq(fitnesses) * population.average_fitness.den
    /\ (Succeeded("initialize_population") \/ Succeeded("evolve_generation")) =>
          /\ result.best_fitness = population.best_fitness
          /\ result.average_fitness = population.average_fitness

\* a step raised the best fitness from 0 to FitMax and left an average of one half
StatisticsConsistencyWitness ==
    /\ Succeeded("evolve_generation")
    /\ Len(population.individuals) = 2
    /\ fitness_history[Len(fitness_history) - 1] = 0
    /\ result.best_fitness = FitMax
    /\ result.average_fitness = Frac(FitMax, 2)

\* C17 (canonical order): the individuals of the population are in non-increasing
\* order of fitness after a successful initialize_population and after every
\* successful evolve_generation, the first has fitness best_fitness, and
\* get_population_data lists the members in that order, best first.
CanonicalOrder ==
    /\ population /= None =>
          /\ \A i \in 1..(Len(population.individuals) - 1) :
                population.individuals[i].fitness >= population.individuals[i + 1].fitness
          /\ population.individuals /= <<>> =>
                population.individuals[1].fitness = population.best_fitness
    /\ (op = "get_population_data" /\ population /= None) =>
          /\ Len(result.population_data) = Len(population.individuals)
          /\ \A i \in 1..Len(population.individuals) :
                /\ result.population_data[i].string = population.individuals[i].text
                /\ result.population_data[i].similarity = population.individuals[i].fitness
          /\ \A i \in 1..(Len(result.population_data) - 1) :
                result.population_data[i].similarity
                    >= result.population_data[i + 1].similarity

\* an offspring that scored above the elite was put before it, and
\* get_population_data listed them so
CanonicalOrderWitness ==
    /\ op = "get_population_data"
    /\ elite_size = 1
    /\ generation = 1
    /\ fitness_history = <<0, FitMax>>
    /\ Len(result.population_data) = 2
    /\ result.population_data[1].similarity = FitMax
    /\ result.population_data[2].similarity = 0

\* C11 (successful initialization): when initialize_population returns success,
\* the population holds exactly population_size individuals, population_size
\* candidates were sampled and each was scored once through the Oracle,
\* generation is 0, the fitness history is the one-element sequence
\* <<best_fitness>>, and the result reports population_size and generation 0;
\* also on an engine that had evolved before the call.
SuccessfulInitialization ==
    Succeeded("initialize_population") =>
        /\ Len(population.individuals) = population_size
        /\ calls.sampled = population_size
        /\ calls.compare_against_barycenter = population_size
        /\ generation = 0
        /\ population.generation = 0
        /\ fitness_history = <<population.best_fitness>>
        /\ result.population_size = population_size
        /\ result.generation = 0

\* an engine that stood at generation 2 with three entries of history was
\* initialized again
SuccessfulInitializationWitness ==
    /\ Succeeded("initialize_population")
    /\ before.generation = 2
    /\ before.fitness_history = 3
    /\ population_size = 2
    /\ fitness_history = <<FitMax>>

\* C12 (convergence rate): in every initialized state get_status reports
\* max(0, history[-1] - history[-5]) when the fitness history has at least 5
\* entries and 0 otherwise; the history has one entry more than generation steps
\* have succeeded since the last initialization, so the rate is 0 until 4 steps
\* have succeeded; it is never negative.
ConvergenceReported ==
    (op = "get_status" /\ population /= None) =>
        LET n == Len(fitness_history)
            improvement == fitness_history[n] - fitness_history[n - 4]
        IN  /\ n = steps + 1
            /\ result.convergence_rate =
                  IF n >= 5 /\ improvement > 0 THEN improvement ELSE 0
            /\ steps < 4 => result.convergence_rate = 0
            /\ result.convergence_rate >= 0

\* after four steps that took the best fitness from 0 to FitMax, get_status
\* reports the whole rise
ConvergenceReportedWitness ==
    /\ op = "get_status"
    /\ steps = 4
    /\ fitness_history[1] = 0
    /\ fitness_history[5] = FitMax
    /\ result.convergence_rate = FitMax

\* a request arrives: the server was idle and has taken a request
Arrives(endpoints) ==
    /\ pc.at = "idle"
    /\ request' /= None
    /\ request'.endpoint \in endpoints

\* the request is refused with HTTP 400 and neither the engine nor the Oracle
\* was called
Refused(details) ==
    /\ response'.status_code = 400
    /\ response'.detail \in details
    /\ pc'.at = "idle"
    /\ UNCHANGED <<op, args, result, calls, population, generation, fitness_history,
                   target_barycenter, population_size, output_length, state>>

Guarded ==
    /\ (Arrives({"/api/v1/evolution/step", "/api/v1/evolution/status"})
           /\ state.evolution_session = None) =>
          Refused({"No active evolution session"})
    /\ (Arrives({"/api/v1/cosine-similarities", "/api/v1/attention/analyze"})
           /\ state.barycenter_vector = None) =>
          Refused({"No barycenter set. Call /barycenter first.",
                   "No barycenter available. Call /barycenter first."})

\* C15 (guarded endpoints): POST /evolution/step and GET /evolution/status while
\* no evolution session is active, and POST /cosine-similarities and POST
\* /attention/analyze while no barycenter was set through /barycenter, are
\* answered with HTTP 400 before the engine or the Oracle is called; a step that
\* is refused leaves the engine's generation as it was.
GuardedEndpoints == [][Guarded]_vars

\* a step was refused after the only initialization had failed in the engine,
\* and no barycenter had been set either
GuardedEndpointsWitness ==
    /\ request /= None
    /\ request.endpoint = "/api/v1/evolution/step"
    /\ response = HTTPException(400, "No active evolution session")
    /\ op = "initialize_population"
    /\ result.status = "error"
    /\ state.barycenter_vector = None
    /\ generation = 0

\* C21 (the uninitialized error is the only failure of a step): once a population
\* exists, evolve_generation returns success whatever population_size, elite_size
\* and tournament_size are, also with a tournament_size above the number of
\* individuals and with a population_size changed after the initialization.
StepAlwaysSucceeds ==
    (op = "evolve_generation" /\ running = "idle" /\ population /= None) =>
        result.status = "success"

VectorMessages ==
    {"Target barycenter not properly set", "Target barycenter is empty"}

\* what the call has done to the Oracle when it reports a missing or empty
\* vector: calls.set_target_strings = "-" says the Oracle's stored target was
\* not replaced
DetectedBeforeOracle ==
    (op' = "initialize_population"
        /\ result'.status = "error"
        /\ result'.message \in VectorMessages) =>
        /\ calls'.set_target_strings = "-"
        /\ calls'.sampled = 0
        /\ calls'.compare_against_barycenter = 0

\* C23 (validation before Oracle mutation and scoring): when initialize_population
\* fails because the target vector is missing or has zero length, the Oracle's
\* stored target is what it was before the call, and no candidate was sampled or
\* scored.
ValidationBeforeScoring == [][DetectedBeforeOracle]_vars

\* C24 (a failed initialization is a client error): when initialize_population
\* returns an error result, POST /api/v1/evolution/initialize responds with status
\* 400 and the engine's message as detail; POST /api/v1/barycenter responds 400
\* when set_target_strings returns a result that is not a success.
FailedInitializationIsClientError ==
    (request /= None /\ pc.at = "idle") =>
        /\ (request.endpoint = "/api/v1/evolution/initialize"
               /\ result.status = "error") =>
               /\ response.status_code = 400
               /\ response.detail = result.message
        /\ (request.endpoint = "/api/v1/barycenter"
               /\ ~Raised(result) /\ result.status /= "success") =>
               /\ response.status_code = 400
               /\ response.detail = result.message

Selected == made /= None /\ made.call = "select_parents" /\ "first" \in DOMAIN made

\* the members whose fitness is not greater than f, by position
NotFitterThan(members, f) == {j \in 1..Len(members) : members[j].fitness <= f}

\* C29 (tournament for parent 1): the first parent returned by _select_parents is
\* a member of the population and has the largest fitness among a sample of
\* tournament_size distinct positions; so at least tournament_size members (itself
\* and tournament_size - 1 others) have fitness not greater than its own, and when
\* tournament_size equals the population size it has the best fitness of all.
FirstParentTournament ==
    Selected =>
        LET members == made.members
            S == made.first.tournament1
            parent1 == made.value[1]
        IN  /\ S \subseteq 1..Len(members)
            /\ Cardinality(S) = made.k
            /\ \E i \in S : members[i] = parent1
            /\ \A j \in S : members[j].fitness <= parent1.fitness
            /\ Cardinality(NotFitterThan(members, parent1.fitness) \ {CHOOSE i \in S : members[i] = parent1})
                    >= made.k - 1
            /\ made.k = Len(members) =>
                   \A j \in 1..Len(members) : members[j].fitness <= parent1.fitness

\* a tournament of two among three members that the fitness decided: the other
\* sampled member is less fit than the winner
FirstParentTournamentWitness ==
    /\ Selected
    /\ made.k = 2
    /\ Len(made.members) = 3
    /\ \E i \in made.first.tournament1 : made.members[i].fitness < made.value[1].fitness

SelectedByTournament == Selected /\ ~made.second.synthesized

SecondParentFallbackWitness ==
    /\ SelectedByTournament
    /\ Len(made.members) = 2
    /\ made.second.remaining = <<>>
    /\ made.value[2] = made.value[1]

\* the candidates loop `by` has appended in the step that `made` follows
AppendedBy(by) == {i \in 1..Len(made.appended) : made.appended[i].by = by}

\* C28 (attempt budget): within one evolve_generation the offspring loop makes at
\* most population_size * 10 attempts; every attempt counts, whether its offspring
\* was appended or discarded as a duplicate (or the attempt raised); the loop is
\* left, and nothing more is appended, once the new generation has
\* population_size individuals; and the shortfall fill runs only when the budget
\* is used up with the generation still short.
AttemptBudget ==
    made /= None =>
        /\ made.attempts <= population_size * 10
        /\ made.attempts = Cardinality(AppendedBy("offspring")) + made.discarded
                                + (IF made.raised /= None THEN 1 ELSE 0)
        /\ made.at = "offspring" => Len(made.new_individuals) < population_size
        /\ made.appended /= <<>> => Len(made.new_individuals) <= population_size
        /\ (made.at = "shortfall" \/ AppendedBy("shortfall") /= {}) =>
               /\ made.attempts = population_size * 10
               /\ Cardinality(AppendedBy("offspring")) + made.elites < population_size

\* a step whose budget ran out on duplicates and whose shortfall fill appended
AttemptBudgetWitness ==
    /\ made /= None
    /\ made.at = "returned"
    /\ population_size = 2
    /\ made.attempts = 20
    /\ made.discarded > 0
    /\ AppendedBy("offspring") /= {}
    /\ AppendedBy("shortfall") /= {}

DistinctTexts(individuals, n) ==
    \A i, j \in 1..n : i /= j => individuals[i].text /= individuals[j].text

\* C27 (deduplication): every individual appended to the new generation during a
\* step, by the offspring loop or by the shortfall fill, has a text that differs
\* from the text of every elite and of every individual appended before it in
\* that step; so when the elites carried over have pairwise distinct texts, all
\* texts of the population after the step are pairwise distinct.
Deduplication ==
    made /= None =>
        /\ \A i \in (made.elites + 1)..Len(made.new_individuals) :
              \A j \in 1..(i - 1) :
                 made.new_individuals[j].text /= made.new_individuals[i].text
        /\ (made.at = "returned" /\ result.status = "success"
               /\ DistinctTexts(made.new_individuals, made.elites)) =>
               DistinctTexts(population.individuals, Len(population.individuals))

\* a step that discarded a duplicate and appended an offspring beside an elite
DeduplicationWitness ==
    /\ made /= None
    /\ made.at = "returned"
    /\ result.status = "success"
    /\ made.elites = 1
    /\ made.discarded > 0
    /\ AppendedBy("offspring") /= {}
    /\ Len(population.individuals) = 2

\* space and lowercase a-z
SpaceAndLowercase ==
    {" ", "a", "b", "c", "d", "e", "f", "g", "h", "i", "j", "k", "l", "m", "n",
     "o", "p", "q", "r", "s", "t", "u", "v", "w", "x", "y", "z"}

Sampled(text, length) ==
    /\ Len(text) = length
    /\ \A i \in 1..Len(text) : text[i] \in SpaceAndLowercase

\* C26 (initial sampling): every individual of the population that a successful
\* initialize_population(target_strings, output_length) produced has a text of
\* exactly output_length characters, each of them a space or a lowercase letter;
\* and so has every individual that the shortfall fill of a generation step
\* appends to a population initialized with that output_length.
InitialSampling ==
    /\ (made = None /\ op = "initialize_population" /\ result.status = "success") =>
           \A i \in 1..Len(population.individuals) :
              Sampled(population.individuals[i].text, args[2])
    /\ made /= None =>
           \A i \in AppendedBy("shortfall") :
              Sampled(made.new_individuals[made.elites + i].text, before.output_length)

\* the candidates of the step whose scoring call raised
ScoringRaised == {i \in 1..Len(made.appended) : made.appended[i].scoring = "raise"}

RequestedLengthHonoured ==
    (request /= None /\ pc.at = "idle"
        /\ request.endpoint = "/api/v1/evolution/initialize"
        /\ response.status_code = 200) =>
        /\ state.evolution_session.output_length = request.body.output_length
        /\ \A i \in 1..Len(population.individuals) :
              Len(population.individuals[i].text) = request.body.output_length

\* text t without its character at position pos
Dropped(t, pos) == SubSeq(t, 1, pos - 1) \o SubSeq(t, pos + 1, Len(t))

\* t2 is t1 with the character at one position replaced (by any character, also
\* the one that was there)
OneReplaced(t1, t2) ==
    /\ Len(t2) = Len(t1)
    /\ \E pos \in 1..Len(t1) : \A i \in 1..Len(t1) : i /= pos => t2[i] = t1[i]

Mutation == made /= None /\ made.call = "mutate"

\* C31 (mutation is the ordered composition of three guarded edits): the mutated
\* text is the input after one substitution (if that trial fired and the text is
\* not empty), then one insertion into the result (if that trial fired and the
\* result is not empty), then one deletion from that result (if that trial fired
\* and it has more than one character); so the length changes by at most 1, the
\* text is unchanged when no trial fires, the length is unchanged when all three
\* fire on a text that is not empty, and an empty text is returned unchanged.
MutationComposition ==
    Mutation =>
        /\ IF "substitution" \in made.fired /\ made.text /= <<>>
           THEN OneReplaced(made.text, made.substituted)
           ELSE made.substituted = made.text
        /\ IF "insertion" \in made.fired /\ made.substituted /= <<>>
           THEN \E pos \in 1..Len(made.inserted) :
                   Dropped(made.inserted, pos) = made.substituted
           ELSE made.inserted = made.substituted
        /\ IF "deletion" \in made.fired /\ Len(made.inserted) > 1
           THEN \E pos \in 1..Len(made.inserted) :
                   Dropped(made.inserted, pos) = made.value
           ELSE made.value = made.inserted
        /\ Len(made.value) - Len(made.text) \in {0 - 1, 0, 1}
        /\ made.fired = {} => made.value = made.text
        /\ (made.fired = Trials /\ made.text /= <<>>) => Len(made.value) = Len(made.text)
        /\ made.text = <<>> => made.value = <<>>

\* all three trials fired on a text of two characters: one was replaced, one was
\* inserted before it, and the replaced one was deleted again
MutationCompositionWitness ==
    /\ Mutation
    /\ made.fired = Trials
    /\ made.text = <<"b", "b">>
    /\ made.substituted = <<"b", "a">>
    /\ made.inserted = <<" ", "b", "a">>
    /\ made.value = <<" ", "b">>

\* C32 (history bookkeeping): in every state after a successful
\* initialize_population the fitness history has exactly generation + 1 entries,
\* its last entry is the best fitness of the population, and the engine's
\* generation is the population's generation.
HistoryBookkeeping ==
    population /= None =>
        /\ Len(fitness_history) = generation + 1
        /\ fitness_history[Len(fitness_history)] = population.best_fitness
        /\ generation = population.generation

\* three steps into a run, with a history that has moved
HistoryBookkeepingWitness ==
    /\ population /= None
    /\ op = "evolve_generation"
    /\ generation = 3
    /\ fitness_history[1] /= fitness_history[4]

NonDecreasing(history) ==
    \A i \in 1..(Len(history) - 1) : history[i] <= history[i + 1]

\* what a call leaves when the run keeps at least one elite
BestKept ==
    (elite_size >= 1 /\ population_size >= 1) =>
        /\ (op' = "evolve_generation" /\ result'.status = "success") =>
               population'.best_fitness >= population.best_fitness
        /\ population' /= None => NonDecreasing(fitness_history')
        /\ (op' = "get_status" /\ population' /= None /\ Len(fitness_history') >= 5) =>
               result'.convergence_rate =
                   fitness_history'[Len(fitness_history')]
                       - fitness_history'[Len(fitness_history') - 4]

\* C33 (best fitness never regresses under elitism): with elite_size >= 1 and
\* population_size >= 1 held fixed, the best fitness of the population after a
\* successful evolve_generation is at least what it was before, whatever the
\* Oracle's scores; so the fitness history never decreases between
\* initializations, and the convergence rate get_status reports is
\* history[-1] - history[-5] itself, the clamp changing nothing.
BestNeverRegresses == [][BestKept]_vars

\* after four steps with an elite kept, get_status reports the rise of the best
\* fitness, and the offspring of the last step scored below the elite
BestNeverRegressesWitness ==
    /\ elite_size = 1
    /\ population_size = 2
    /\ op = "get_status"
    /\ steps = 4
    /\ result.convergence_rate = FitMax
    /\ population.individuals[2].fitness < population.best_fitness

FailedStepKeeps ==
    (op' = "evolve_generation" /\ running' = "idle" /\ result'.status = "error") =>
        /\ population' = population
        /\ generation' = generation
        /\ fitness_history' = fitness_history

\* C34 (a failed generation step changes nothing): whenever evolve_generation
\* returns an error result, the population (its individuals, statistics and
\* generation), the engine's generation counter and the fitness history are what
\* they were before the call.
FailedStepChangesNothing == [][FailedStepKeeps]_vars

\* a step failed in the loop, after an earlier step of the run had succeeded
FailedStepChangesNothingWitness ==
    /\ op = "evolve_generation"
    /\ running = "idle"
    /\ result.status = "error"
    /\ result.message \notin UninitializedMessages
    /\ population /= None
    /\ generation = 1
    /\ population.individuals /= <<>>

\* a call of initialize_population on an engine that has a population returned an
\* error: the run is kept; and the evolve_generation that follows such a call
\* goes on from the kept run
PreviousRunKept ==
    /\ (op' = "initialize_population" /\ result'.status = "error"
           /\ population /= None) =>
           /\ population' = population
           /\ generation' = generation
           /\ fitness_history' = fitness_history
    /\ (op = "initialize_population" /\ result.status = "error" /\ population /= None
           /\ op' = "evolve_generation" /\ running' = "idle"
           /\ result'.status = "success") =>
           /\ generation' = generation + 1
           /\ result'.generation = generation + 1
           /\ fitness_history' = Append(fitness_history, population'.best_fitness)
           /\ elite_size <= population_size =>
                  \A i \in 1..Min(elite_size, Len(population.individuals)) :
                     \E j \in 1..Len(population'.individuals) :
                        population'.individuals[j] = population.individuals[i]

\* C35 (a failed re-initialization keeps the previous run): when
\* initialize_population returns an error on an engine that has a population, the
\* population, the generation counter and the fitness history stay as they were,
\* and an evolve_generation called next continues from them.
FailedReinitializationKeepsRun == [][PreviousRunKept]_vars

\* a re-initialization failed one step into a run that holds individuals
FailedReinitializationKeepsRunWitness ==
    /\ op = "initialize_population"
    /\ result.status = "error"
    /\ population /= None
    /\ generation = 1
    /\ Len(fitness_history) = 2
    /\ Len(population.individuals) = 2

\* an evolve_generation on a population that its elites fill
SaturatedStep ==
    /\ op' = "evolve_generation"
    /\ running = "idle"
    /\ running' = "idle"
    /\ population /= None
    /\ population_size <= elite_size
    /\ Len(population.individuals) = population_size

\* the step scores nothing and changes the counter and the history only
FixedPoint ==
    SaturatedStep =>
        /\ result'.status = "success"
        /\ calls'.compare_against_barycenter = 0
        /\ population'.individuals = population.individuals
        /\ population' = [population EXCEPT !.generation = @ + 1]
        /\ generation' = generation + 1
        /\ fitness_history' = Append(fitness_history, population.best_fitness)
        /\ UNCHANGED <<population_size, elite_size, tournament_size, output_length,
                       target_barycenter>>

\* C36 (saturated elitism is a fixed point): when population_size <= elite_size
\* and the population holds population_size individuals, evolve_generation scores
\* no offspring, leaves the individuals as they were, in the same order and with
\* the same fitness, and advances only the generation counter and the history.
SaturatedElitismFixedPoint == [][FixedPoint]_vars

\* a step over two equally fit individuals that the elites fill
SaturatedElitismFixedPointWitness ==
    /\ op = "evolve_generation"
    /\ running = "idle"
    /\ result.status = "success"
    /\ population_size = 2
    /\ population_size <= elite_size
    /\ Len(population.individuals) = 2
    /\ population.individuals[1].fitness = population.individuals[2].fitness
    /\ population.individuals[1].text /= population.individuals[2].text
    /\ calls.compare_against_barycenter = 0
    /\ generation = 1

\* C37 (the target of a run is immutable): whenever a step request is about to
\* run a generation, the target the Oracle scores candidates against is the one
\* that the run's initialization put into the population, whatever requests the
\* server has answered in between.
TargetOfRunImmutable ==
    (pc.at = "evolve_generation" /\ pc.remaining > 0 /\ population /= None) =>
        target_barycenter = population.target_barycenter

\* C38 (step request bookkeeping): a step request that gets through its loop has
\* advanced the engine by exactly the session's step_generations generations, and
\* after every step request that returns, successful or not, the generation
\* recorded in the evolution session is the engine's generation.
StepRequestBookkeeping ==
    /\ pc.at = "evolve_generation" =>
           generation + pc.remaining =
              state.evolution_session.generation + state.evolution_session.step_generations
    /\ (pc.at = "idle" /\ request /= None /\ request.endpoint = "/api/v1/evolution/step"
           /\ state.evolution_session /= None) =>
           state.evolution_session.generation = generation

\* C38 as amended: the engine is advanced by step_generations generations when
\* that number is positive and by none otherwise; after every step request that
\* returns, the generation recorded in the session is the engine's generation.
StepRequestBookkeepingFromZero ==
    /\ pc.at = "evolve_generation" =>
           generation + pc.remaining =
              state.evolution_session.generation
                 + Max(0, state.evolution_session.step_generations)
    /\ (pc.at = "idle" /\ request /= None /\ request.endpoint = "/api/v1/evolution/step"
           /\ state.evolution_session /= None) =>
           state.evolution_session.generation = generation

\* a step request of a session with a negative step_generations has been answered
StepRequestNegativeWitness ==
    /\ pc.at = "idle"
    /\ request /= None
    /\ request.endpoint = "/api/v1/evolution/step"
    /\ response.status_code = 200
    /\ state.evolution_session.step_generations < 0

\* a step request of two generations has been answered
StepRequestBookkeepingFromZeroWitness ==
    /\ pc.at = "idle"
    /\ request /= None
    /\ request.endpoint = "/api/v1/evolution/step"
    /\ response.status_code = 200
    /\ state.evolution_session.step_generations = 2
    /\ generation = 2

\* a step request has been refused by the engine and answered with an error
StepRequestFailedWitness ==
    /\ pc.at = "idle"
    /\ request /= None
    /\ request.endpoint = "/api/v1/evolution/step"
    /\ response.status_code = 500
    /\ op = "evolve_generation"
    /\ result.status = "error"

\* C39 (scoring count per step): when an evolve_generation that carried over no
\* more elites than population_size has returned success, the Oracle was asked to
\* score exactly population_size minus the number of elites candidates: one for
\* each individual appended after the elites, none for an elite and none for an
\* offspring discarded as a duplicate.
ScoringCount ==
    (/\ made /= None
     /\ made.at = "returned"
     /\ result.status = "success"
     /\ population_size >= made.elites) =>
        /\ calls.compare_against_barycenter = population_size - made.elites
        /\ calls.compare_against_barycenter = Len(made.appended)
        /\ Len(made.new_individuals) = made.elites + Len(made.appended)
        /\ made.attempts = Cardinality(AppendedBy("offspring")) + made.discarded

\* a step with one elite that discarded a duplicate before it scored and appended
\* its one offspring
ScoringCountWitness ==
    /\ made /= None
    /\ made.at = "returned"
    /\ result.status = "success"
    /\ population_size = 2
    /\ made.elites = 1
    /\ made.discarded >= 1
    /\ calls.compare_against_barycenter = 1

====
